---- MODULE Spec2Model ----
(***************************************************************************)
(* The job pipeline of the LinkedIn crawler / scorer:                      *)
(*   - the broker-backed extraction pool (crawler/crawler_with_scoring.py) *)
(*   - the scoring pool (scoring/scoring_consumer.py)                      *)
(* with the persisted record directories, the dedup checks over them, the  *)
(* broker's queues and the stats counters.                                 *)
(***************************************************************************)
EXTENDS Integers, Sequences, FiniteSets, TLC

(* ------------------------------ bounds --------------------------------- *)
\* worker threads per pool
NumWorkers == 2
\* messages the producer publishes in one run
MaxJobs == 2
\* seconds the wall clock may advance (the timestamp in a file name)
MaxTime == 1

Workers == 1..NumWorkers
JobIds == 1..MaxJobs

(* ------------------------------ inputs --------------------------------- *)
\* Profile URLs.  "b" and "c" are two distinct URLs whose md5 prefixes coincide.
URLS == {"a", "b", "c"}

\* hashlib.md5(profile_url.encode()).hexdigest()[:8]: 32 bits of the digest,
\* so not injective.
get_profile_hash(profile_url) ==
  CASE profile_url = "a" -> "h1"
    [] profile_url = "b" -> "h2"
    [] profile_url = "c" -> "h2"
    [] OTHER -> "h0"

\* What extract_name() finds on the page of a URL, already cleaned to the
\* name_slug of the file name, as its "_"-separated tokens.
name_slug(profile_url) ==
  CASE profile_url = "a" -> <<"ann">>
    [] profile_url = "b" -> <<"bob", "lee">>
    [] OTHER -> <<"cy">>

\* DEFAULT_REQUIREMENTS_ID = 'desk_collection', as its "_"-separated tokens.
DEFAULT_REQUIREMENTS_ID == <<"desk", "collection">>

\* No counter value is held between its read and its write.
NoLoad == [counter |-> "", value |-> 0]

NoJob == [id |-> 0, kind |-> "none", url |-> ""]
NoProfile == [profile_url |-> "", name |-> <<>>]

(* ------------------------------ state ---------------------------------- *)
VARIABLES
  now,        \* wall clock, in seconds
  published,  \* number of messages published so far (the next delivery tag)
  crawlQ,     \* crawl queue: messages ready at the broker
  eunacked,   \* per extraction worker: messages delivered and not yet acked/nacked
  ebuf,       \* per extraction worker: deliveries waiting for the callback
  epc,        \* per extraction worker: position in callback
  ejob,       \* per extraction worker: the message the callback handles
  eprofile,   \* per extraction worker: profile_data
  outFiles,   \* data/output: the persisted ProfileRecord files
  scoreQ,     \* scoring queue: messages ready at the broker
  estats,     \* crawler_with_scoring.stats
  ehist,      \* per crawl message: what happened to it (history)
  spublished, \* number of messages published to the scoring queue so far
  sunacked,   \* per scoring worker: messages delivered and not yet acked/nacked
  sbuf,       \* per scoring worker: deliveries waiting for the callback
  spc,        \* per scoring worker: position in callback / process_message
  sjob,       \* per scoring worker: the message the callback handles
  scoreFiles, \* data/scores: the persisted ScoreResult files
  sstats,     \* scoring_consumer.stats
  shist,      \* per Score message: what happened to it (history)
  main,       \* the main thread: "running", "interrupted" or "exited"
  unfinished, \* url_queue.unfinished_tasks of the in-process pool
  received,   \* the jobs workers held when main was interrupted (history)
  loaded,     \* per in-process worker: the counter value read and not yet stored
  requirements, \* OptimizedScorer.requirements of the scorer instance
  breakdown,  \* OptimizedScorer.breakdown of the scorer instance
  profile,    \* the profile handed to score
  first,      \* the first result score returned for profile (history)
  last        \* the latest result score returned for profile (history)

\* The scorer instance and its calls.
cvars == <<requirements, breakdown, profile, first, last>>

\* The main thread and what only it and the in-process pool touch, and the
\* scorer, which no step of a pool touches (process_message builds its own
\* scorer per message, line 427).
pvars == <<main, unfinished, received, loaded, cvars>>

evars == <<published, crawlQ, eunacked, ebuf, epc, ejob, eprofile,
           outFiles, estats, ehist, pvars>>

svars == <<sunacked, sbuf, spc, sjob, scoreFiles, sstats, shist, pvars>>

vars == <<now, scoreQ, spublished, evars, svars>>

(* --------------------------- persisted files --------------------------- *)
\* A file of data/output: "{name_slug}_{timestamp}_{url_hash}.json" holding the
\* profile_data; complete = FALSE is a file whose JSON was cut short.
ProfileFile(profile_data, ts) ==
  [slug |-> profile_data.name, ts |-> ts,
   hash |-> IF profile_data.profile_url # ""
            THEN get_profile_hash(profile_data.profile_url) ELSE "nohash",
   profile_url |-> profile_data.profile_url, complete |-> TRUE]

SameName(f, g) == f.slug = g.slug /\ f.ts = g.ts /\ f.hash = g.hash

\* open(filepath, 'w') + json.dump: a file of the same name is replaced.
WriteFile(files, f) == {g \in files : ~SameName(g, f)} \cup {f}

\* check_if_already_crawled: glob "*_{url_hash}.json", then every readable
\* file whose profile_url field equals the URL.
check_if_already_crawled(profile_url, files) ==
  \/ \E f \in files : f.hash = get_profile_hash(profile_url)
  \/ \E f \in files : f.complete /\ f.profile_url = profile_url

(* ------------------------------ broker --------------------------------- *)
\* Without basic_qos the broker pushes every queued message to a consumer.
prefetch_unlimited == MaxJobs

\* basic_qos(prefetch_count=1)
prefetch_count == 1

\* RabbitMQManager.publish_url: {'url': url}, persistent, appended to the queue.
PublishUrl(url) ==
  /\ published < MaxJobs
  /\ published' = published + 1
  /\ crawlQ' = Append(crawlQ, [id |-> published + 1, kind |-> "object", url |-> url])
  /\ ehist' = [ehist EXCEPT ![published + 1].url = url]
  /\ UNCHANGED <<now, eunacked, ebuf, epc, ejob, eprofile, outFiles, scoreQ,
                 estats, spublished, svars>>

\* datetime.now() advances.  Only the equality of two timestamps matters, so
\* the clock is advanced only past a second in which a file was written.
Tick ==
  /\ now < MaxTime
  /\ \E f \in outFiles \cup scoreFiles : f.ts = now
  /\ now' = now + 1
  /\ UNCHANGED <<scoreQ, spublished, evars, svars>>

\* The broker hands the head of the queue to a consumer whose number of
\* unacknowledged messages is below its prefetch count.
BrokerDeliverCrawl(w) ==
  /\ crawlQ # <<>>
  /\ Cardinality(eunacked[w]) < prefetch_count
  /\ eunacked' = [eunacked EXCEPT ![w] = @ \cup {Head(crawlQ)}]
  /\ ebuf' = [ebuf EXCEPT ![w] = Append(@, Head(crawlQ))]
  /\ crawlQ' = Tail(crawlQ)
  /\ ehist' = [ehist EXCEPT ![Head(crawlQ).id].deliveries = @ + 1]
  /\ UNCHANGED <<now, published, epc, ejob, eprofile, outFiles, scoreQ, estats,
                 spublished, svars>>

(* ------------------- extraction worker: callback ------------------------ *)
\* ack_message(ch, tag): basic_ack; the broker forgets the delivery.
Acked(w, h) ==
  /\ eunacked' = [eunacked EXCEPT ![w] = @ \ {ejob'[w]}]
  /\ ehist' = [h EXCEPT ![ejob'[w].id].acks = @ + 1]

\* nack_message(ch, tag, requeue=False): basic_nack; the message is dropped,
\* it does not go back to the queue.
Nacked(w, h) ==
  /\ eunacked' = [eunacked EXCEPT ![w] = @ \ {ejob'[w]}]
  /\ ehist' = [h EXCEPT ![ejob'[w].id].nacks = @ + 1]

\* History: the message's own increment of a stats counter.
Count(h, id, counter) == [h EXCEPT ![id].counted[counter] = @ + 1]

\* History: the crawl messages acked as completed so far.
CompletedJobs == {i \in JobIds : ehist[i].acks > 0 /\ ehist[i].counted["completed"] > 0}

\* callback with an empty url handled like any other failure: counted as
\* processing and failed, and nacked.
CallbackEnter_nacks_empty_url(w) ==
  /\ epc[w] = "idle"
  /\ ebuf[w] # <<>>
  /\ ebuf' = [ebuf EXCEPT ![w] = Tail(@)]
  /\ ejob' = [ejob EXCEPT ![w] = Head(ebuf[w])]
  /\ LET m == Head(ebuf[w])
         h == [ehist EXCEPT ![m.id].hadRecord =
                 \E f \in outFiles : f.complete /\ f.profile_url = m.url,
                            ![m.id].prior = CompletedJobs]
     IN \/ /\ m.kind # "object"
           /\ Nacked(w, h)
           /\ UNCHANGED <<epc, estats>>
        \/ /\ m.kind = "object" /\ m.url = ""
           /\ estats' = [estats EXCEPT !.processing = @ + 1]
           /\ epc' = [epc EXCEPT ![w] = "except"]
           /\ ehist' = h
           /\ UNCHANGED eunacked
        \/ /\ m.kind = "object" /\ m.url # ""
           /\ estats' = [estats EXCEPT !.processing = @ + 1]
           /\ epc' = [epc EXCEPT ![w] = "create"]
           /\ ehist' = h
           /\ UNCHANGED eunacked
  /\ UNCHANGED <<now, published, crawlQ, eprofile, outFiles, scoreQ,
                 spublished, svars>>

\* callback, lines 188-205: parse the body, ack an empty url, else count the
\* job as processing.  A body that json.loads or message.get rejects raises
\* into the outer except (lines 257-259), which nacks.
CallbackEnter(w) ==
  /\ epc[w] = "idle"
  /\ ebuf[w] # <<>>
  /\ ebuf' = [ebuf EXCEPT ![w] = Tail(@)]
  /\ ejob' = [ejob EXCEPT ![w] = Head(ebuf[w])]
  /\ LET m == Head(ebuf[w])
         h == [ehist EXCEPT ![m.id].hadRecord =
                 \E f \in outFiles : f.complete /\ f.profile_url = m.url,
                            ![m.id].prior = CompletedJobs]
     IN \/ /\ m.kind # "object"
           /\ Nacked(w, h)
           /\ UNCHANGED <<epc, estats>>
        \/ /\ m.kind = "object" /\ m.url = ""
           /\ Acked(w, h)
           /\ UNCHANGED <<epc, estats>>
        \/ /\ m.kind = "object" /\ m.url # ""
           /\ estats' = [estats EXCEPT !.processing = @ + 1]
           /\ epc' = [epc EXCEPT ![w] = "create"]
           /\ ehist' = h
           /\ UNCHANGED eunacked
  /\ UNCHANGED <<now, published, crawlQ, eprofile, outFiles, scoreQ,
                 spublished, svars>>

\* lines 207-215: crawler = LinkedInCrawler() (outside the inner try: when it
\* raises, the outer except of lines 257-259 nacks and nothing else runs), then
\* inside the inner try crawler.login() and profile_data =
\* crawler.get_profile(url), which sets data['profile_url'] = url
\* (crawler.py 111); an exception of these two goes to the inner except.
ExtractProfile(w) ==
  /\ epc[w] = "create"
  /\ UNCHANGED ejob
  /\ LET h == [ehist EXCEPT ![ejob[w].id].crawler = TRUE]
     IN \/ /\ epc' = [epc EXCEPT ![w] = "idle"]
           /\ Nacked(w, [h EXCEPT ![ejob[w].id].raised = "LinkedInCrawler"])
           /\ UNCHANGED eprofile
        \/ /\ epc' = [epc EXCEPT ![w] = "except"]
           /\ ehist' = [h EXCEPT ![ejob[w].id].raised = "get_profile"]
           /\ UNCHANGED <<eunacked, eprofile>>
        \/ /\ epc' = [epc EXCEPT ![w] = "save"]
           /\ eprofile' = [eprofile EXCEPT ![w] =
                [profile_url |-> ejob[w].url, name |-> name_slug(ejob[w].url)]]
           /\ ehist' = h
           /\ UNCHANGED eunacked
  /\ UNCHANGED <<now, published, crawlQ, ebuf, outFiles, scoreQ, estats,
                 spublished, svars>>

\* save_profile_data, main.py 47-59: the duplicate check; an existing record
\* ends the save without writing.
SaveProfileCheck(w) ==
  /\ epc[w] = "save"
  /\ epc' = [epc EXCEPT ![w] =
       IF eprofile[w].profile_url # ""
          /\ check_if_already_crawled(eprofile[w].profile_url, outFiles)
       THEN "send" ELSE "write"]
  /\ UNCHANGED <<now, published, crawlQ, eunacked, ebuf, ejob, eprofile,
                 outFiles, scoreQ, estats, ehist,
                 spublished, svars>>

\* save_profile_data, main.py 61-84: the file is opened for writing and the
\* JSON dumped into it.  open may raise (nothing written) and json.dump may
\* raise after the file was created (a cut-short file stays).
SaveProfileWrite(w) ==
  /\ epc[w] = "write"
  /\ \/ /\ outFiles' = WriteFile(outFiles, ProfileFile(eprofile[w], now))
        /\ ehist' = [ehist EXCEPT ![ejob[w].id].wrote = TRUE]
        /\ epc' = [epc EXCEPT ![w] = "send"]
     \/ /\ outFiles' = WriteFile(outFiles,
              [ProfileFile(eprofile[w], now) EXCEPT !.complete = FALSE])
        /\ ehist' = [ehist EXCEPT ![ejob[w].id].wrote = TRUE,
                                  ![ejob[w].id].raised = "save_profile_data"]
        /\ epc' = [epc EXCEPT ![w] = "except"]
     \/ /\ epc' = [epc EXCEPT ![w] = "except"]
        /\ ehist' = [ehist EXCEPT ![ejob[w].id].raised = "save_profile_data"]
        /\ UNCHANGED outFiles
  /\ UNCHANGED <<now, published, crawlQ, eunacked, ebuf, ejob, eprofile,
                 scoreQ, estats,
                 spublished, svars>>

\* lines 220-224 and send_to_scoring_queue (47-86): publish the Score job;
\* a failed connect or publish returns False and changes nothing.
SendToScoring(w) ==
  /\ epc[w] = "send"
  /\ epc' = [epc EXCEPT ![w] = "complete"]
  /\ \/ /\ scoreQ' = Append(scoreQ,
              [id |-> spublished + 1, kind |-> "object",
               profile_data |-> eprofile[w],
               requirements_id |-> DEFAULT_REQUIREMENTS_ID])
        /\ spublished' = spublished + 1
        /\ estats' = [estats EXCEPT !.sent_to_scoring = @ + 1]
        /\ ehist' = [ehist EXCEPT ![ejob[w].id].sent = @ + 1]
        /\ shist' = [shist EXCEPT ![spublished + 1].url = eprofile[w].profile_url,
                                  ![spublished + 1].req = DEFAULT_REQUIREMENTS_ID]
     \/ UNCHANGED <<scoreQ, spublished, estats, ehist, shist>>
  /\ UNCHANGED <<now, published, crawlQ, eunacked, ebuf, ejob, eprofile, outFiles,
                 sunacked, sbuf, spc, sjob, scoreFiles, sstats, pvars>>

\* lines 226-235: completed += 1, then ack.
Complete(w) ==
  /\ epc[w] = "complete"
  /\ epc' = [epc EXCEPT ![w] = "finally"]
  /\ estats' = [estats EXCEPT !.completed = @ + 1]
  /\ UNCHANGED ejob
  /\ Acked(w, Count(ehist, ejob[w].id, "completed"))
  /\ UNCHANGED <<now, published, crawlQ, ebuf, eprofile, outFiles, scoreQ,
                 spublished, svars>>

\* lines 237-247: failed += 1, then nack without requeue.
Except(w) ==
  /\ epc[w] = "except"
  /\ epc' = [epc EXCEPT ![w] = "finally"]
  /\ estats' = [estats EXCEPT !.failed = @ + 1]
  /\ UNCHANGED ejob
  /\ Nacked(w, Count(ehist, ejob[w].id, "failed"))
  /\ UNCHANGED <<now, published, crawlQ, ebuf, eprofile, outFiles, scoreQ,
                 spublished, svars>>

\* lines 249-255: crawler.close(), then processing -= 1.  When close raises,
\* the decrement is skipped and the outer except (257-259) nacks again.
Finally(w) ==
  /\ epc[w] = "finally"
  /\ epc' = [epc EXCEPT ![w] = "idle"]
  /\ UNCHANGED ejob
  /\ \/ /\ estats' = [estats EXCEPT !.processing = @ - 1]
        /\ UNCHANGED <<eunacked, ehist>>
     \/ /\ Nacked(w, ehist)
        /\ UNCHANGED estats
  /\ UNCHANGED <<now, published, crawlQ, ebuf, eprofile, outFiles, scoreQ,
                 spublished, svars>>

(* ----------------------- scoring: persisted files ----------------------- *)
\* Requirement ids, as their "_"-separated tokens: the files of requirements/.
\* 'backend_dev_senior' and 'backend_dev' both exist; 'zero_weights' holds
\* skill weights that sum to 0; no file exists for 'nofile'.
REQ_SENIOR == <<"backend", "dev", "senior">>
REQ_DEV == <<"backend", "dev">>
REQ_ZERO == <<"zero", "weights">>
REQ_NOFILE == <<"nofile">>
REQ_IDS == {REQ_SENIOR, REQ_DEV, REQ_ZERO, REQ_NOFILE}

\* A loader that returns requirements for every id, the missing file included.
load_requirements_always(requirements_id) == TRUE

\* load_requirements (257-270): None when requirements/{id}.json is missing.
load_requirements(requirements_id) == requirements_id # REQ_NOFILE

\* OptimizedScorer.score raises ZeroDivisionError at weight / total_weight
\* (line 128) when the weights sum to 0.
ScorerRaises(requirements_id) == requirements_id = REQ_ZERO

\* A file of data/scores:
\* "{name_slug}_{requirements_id}_{%Y%m%d_%H%M%S}_{url_hash}_score.json"
\* holding {profile, requirements_id, score, scored_at}.
ScoreFile(profile_data, requirements_id, ts) ==
  [slug |-> profile_data.name, req |-> requirements_id, ts |-> ts,
   hash |-> IF profile_data.profile_url # ""
            THEN get_profile_hash(profile_data.profile_url) ELSE "nohash",
   profile_url |-> profile_data.profile_url,
   requirements_id |-> requirements_id, complete |-> TRUE]

\* The "_"-separated tokens of a score file's name.
ScoreFileTokens(f) ==
  f.slug \o f.req \o <<"20260101", ToString(f.ts)>> \o <<f.hash, "score.json">>

SameScoreName(f, g) == ScoreFileTokens(f) = ScoreFileTokens(g)

WriteScoreFile(files, f) == {g \in files : ~SameScoreName(g, f)} \cup {f}

\* glob "*_{requirements_id}_*_{url_hash}_score.json" on a file name: the name
\* ends in "_{url_hash}_score.json" and, before that, holds
\* "_{requirements_id}_" somewhere.  No token holds a "_", so the id's tokens
\* are consecutive tokens of the name, not the first and with a token between
\* them and the hash.
GlobScore(requirements_id, url_hash, f) ==
  LET t == ScoreFileTokens(f)
      L == Len(t)
      n == Len(requirements_id)
  IN /\ t[L - 1] = url_hash
     /\ \E i \in 2..(L - 2 - n) : SubSeq(t, i, i + n - 1) = requirements_id

\* check_if_already_scored (278-305): the glob, then every readable score file
\* whose profile.profile_url and requirements_id equal the arguments.
check_if_never_scored(profile_url, requirements_id, files) == FALSE

check_if_already_scored(profile_url, requirements_id, files) ==
  \/ \E f \in files : GlobScore(requirements_id, get_profile_hash(profile_url), f)
  \/ \E f \in files : /\ f.complete
                      /\ f.profile_url = profile_url
                      /\ f.requirements_id = requirements_id

(* ------------------------ scoring worker: callback ---------------------- *)
NoScoreJob == [id |-> 0, kind |-> "none", profile_data |-> NoProfile,
               requirements_id |-> <<>>]

\* A producer publishes a Score message: {profile_data, requirements_id,
\* profile_url}; profile_data may be missing.
PublishScore(m) ==
  /\ spublished < MaxJobs
  /\ spublished' = spublished + 1
  /\ scoreQ' = Append(scoreQ, [m EXCEPT !.id = spublished + 1])
  /\ shist' = [shist EXCEPT ![spublished + 1].url = m.profile_data.profile_url,
                            ![spublished + 1].req = m.requirements_id]
  /\ UNCHANGED <<now, evars, sunacked, sbuf, spc, sjob, scoreFiles, sstats>>

\* basic_qos(prefetch_count=1), line 492: the broker hands the head of the
\* queue to a consumer with fewer unacknowledged messages than its prefetch.
BrokerDeliverScore(w) ==
  /\ scoreQ # <<>>
  /\ Cardinality(sunacked[w]) < prefetch_count
  /\ sunacked' = [sunacked EXCEPT ![w] = @ \cup {Head(scoreQ)}]
  /\ sbuf' = [sbuf EXCEPT ![w] = Append(@, Head(scoreQ))]
  /\ scoreQ' = Tail(scoreQ)
  /\ shist' = [shist EXCEPT ![Head(scoreQ).id].deliveries = @ + 1]
  /\ UNCHANGED <<now, spublished, evars, spc, sjob, scoreFiles, sstats>>

\* callback 501-511 and process_message 397-416: processing += 1, parse, and
\* the duplicate check.  A hit counts skipped and returns True.
ScoreCallbackEnter(w) ==
  /\ spc[w] = "idle"
  /\ sbuf[w] # <<>>
  /\ sbuf' = [sbuf EXCEPT ![w] = Tail(@)]
  /\ sjob' = [sjob EXCEPT ![w] = Head(sbuf[w])]
  /\ LET m == Head(sbuf[w])
         url == m.profile_data.profile_url
         hit == url # "" /\ check_if_already_scored(url, m.requirements_id, scoreFiles)
         others == {v \in Workers \ {w} :
                      /\ spc[v] \notin {"idle", "finally"}
                      /\ sjob[v].profile_data.profile_url = url
                      /\ sjob[v].requirements_id = m.requirements_id}
     IN /\ shist' = [i \in JobIds |->
              IF i = m.id
              THEN [shist[i] EXCEPT
                      !.hadRecord = \E f \in scoreFiles :
                                       /\ f.complete /\ f.profile_url = url
                                       /\ f.requirements_id = m.requirements_id,
                      !.overlapped = others # {},
                      !.counted["skipped"] =
                         IF m.kind = "object" /\ hit THEN @ + 1 ELSE @]
              ELSE IF \E v \in others : sjob[v].id = i
              THEN [shist[i] EXCEPT !.overlapped = TRUE]
              ELSE shist[i]]
        /\ sstats' = [sstats EXCEPT !.processing = @ + 1,
                                    !.skipped = IF m.kind = "object" /\ hit
                                                THEN @ + 1 ELSE @]
        /\ spc' = [spc EXCEPT ![w] =
              IF m.kind # "object" THEN "failure"
              ELSE IF hit THEN "success" ELSE "score"]
  /\ UNCHANGED <<now, scoreQ, spublished, evars, sunacked, scoreFiles>>

\* process_message 418-443: load the requirements (None: return False) and
\* compute the score (an exception: return False).
LoadAndScore(w) ==
  /\ spc[w] = "score"
  /\ LET ok == /\ load_requirements(sjob[w].requirements_id)
               /\ ~ScorerRaises(sjob[w].requirements_id)
     IN /\ spc' = [spc EXCEPT ![w] = IF ok THEN "save" ELSE "failure"]
        /\ shist' = [shist EXCEPT ![sjob[w].id].computed = IF ok THEN @ + 1 ELSE @]
  /\ UNCHANGED <<now, scoreQ, spublished, evars, sunacked, sbuf, sjob,
                 scoreFiles, sstats>>

\* save_score_result 308-320: the duplicate check; a hit ends the save.
SaveScoreCheck(w) ==
  /\ spc[w] = "save"
  /\ spc' = [spc EXCEPT ![w] =
       IF sjob[w].profile_data.profile_url # ""
          /\ check_if_already_scored(sjob[w].profile_data.profile_url,
                                     sjob[w].requirements_id, scoreFiles)
       THEN "sink" ELSE "write"]
  /\ UNCHANGED <<now, scoreQ, spublished, evars, sunacked, sbuf, sjob,
                 scoreFiles, sstats, shist>>

\* save_score_result 322-351: open the file and dump the JSON: written, cut
\* short by an exception of json.dump, or not opened at all.
SaveScoreWrite(w) ==
  /\ spc[w] = "write"
  /\ LET f == ScoreFile(sjob[w].profile_data, sjob[w].requirements_id, now)
     IN \/ /\ scoreFiles' = WriteScoreFile(scoreFiles, f)
           /\ shist' = [shist EXCEPT ![sjob[w].id].wrote = @ + 1]
           /\ spc' = [spc EXCEPT ![w] = "sink"]
        \/ /\ scoreFiles' = WriteScoreFile(scoreFiles, [f EXCEPT !.complete = FALSE])
           /\ shist' = [shist EXCEPT ![sjob[w].id].wrote = @ + 1]
           /\ spc' = [spc EXCEPT ![w] = "failure"]
        \/ /\ spc' = [spc EXCEPT ![w] = "failure"]
           /\ UNCHANGED <<scoreFiles, shist>>
  /\ UNCHANGED <<now, scoreQ, spublished, evars, sunacked, sbuf, sjob, sstats>>

\* UpdateSupabase with a sink failure treated as a failure of the job.
UpdateSupabase_failure_fails_job(w) ==
  /\ spc[w] = "sink"
  /\ IF sjob[w].profile_data.profile_url = ""
     THEN /\ spc' = [spc EXCEPT ![w] = "success"]
          /\ UNCHANGED <<sstats, shist>>
     ELSE \E updated \in BOOLEAN :
            /\ spc' = [spc EXCEPT ![w] = IF updated THEN "success" ELSE "failure"]
            /\ sstats' = IF updated
                         THEN [sstats EXCEPT !.supabase_updated = @ + 1]
                         ELSE [sstats EXCEPT !.supabase_failed = @ + 1]
            /\ shist' = [shist EXCEPT ![sjob[w].id].sink =
                           IF updated THEN "updated" ELSE "failed"]
  /\ UNCHANGED <<now, scoreQ, spublished, evars, sunacked, sbuf, sjob, scoreFiles>>

\* process_message 448-461 and update_supabase_score 354-374: with a
\* profile_url the sink is updated; True counts supabase_updated, False (an
\* exception, no client, no matching row) counts supabase_failed.
UpdateSupabase(w) ==
  /\ spc[w] = "sink"
  /\ spc' = [spc EXCEPT ![w] = "success"]
  /\ IF sjob[w].profile_data.profile_url = ""
     THEN UNCHANGED <<sstats, shist>>
     ELSE \E updated \in BOOLEAN :
            /\ sstats' = IF updated
                         THEN [sstats EXCEPT !.supabase_updated = @ + 1]
                         ELSE [sstats EXCEPT !.supabase_failed = @ + 1]
            /\ shist' = [shist EXCEPT ![sjob[w].id].sink =
                           IF updated THEN "updated" ELSE "failed"]
  /\ UNCHANGED <<now, scoreQ, spublished, evars, sunacked, sbuf, sjob, scoreFiles>>

\* callback 513-516: success: completed += 1, basic_ack.
ScoreSuccess(w) ==
  /\ spc[w] = "success"
  /\ spc' = [spc EXCEPT ![w] = "finally"]
  /\ sstats' = [sstats EXCEPT !.completed = @ + 1]
  /\ sunacked' = [sunacked EXCEPT ![w] = @ \ {sjob[w]}]
  /\ shist' = [shist EXCEPT ![sjob[w].id].acks = @ + 1,
                            ![sjob[w].id].counted["completed"] = @ + 1]
  /\ UNCHANGED <<now, scoreQ, spublished, evars, sbuf, sjob, scoreFiles>>

\* callback 517-521 (and 526-530): failed += 1, basic_nack(requeue=False).
ScoreFailure(w) ==
  /\ spc[w] = "failure"
  /\ spc' = [spc EXCEPT ![w] = "finally"]
  /\ sstats' = [sstats EXCEPT !.failed = @ + 1]
  /\ sunacked' = [sunacked EXCEPT ![w] = @ \ {sjob[w]}]
  /\ shist' = [shist EXCEPT ![sjob[w].id].nacks = @ + 1,
                            ![sjob[w].id].counted["failed"] = @ + 1]
  /\ UNCHANGED <<now, scoreQ, spublished, evars, sbuf, sjob, scoreFiles>>

\* callback 532-534: finally: processing -= 1.
ScoreFinally(w) ==
  /\ spc[w] = "finally"
  /\ spc' = [spc EXCEPT ![w] = "idle"]
  /\ sstats' = [sstats EXCEPT !.processing = @ - 1]
  /\ UNCHANGED <<now, scoreQ, spublished, evars, sunacked, sbuf, sjob,
                 scoreFiles, shist>>

(* ------------------------------------------------------------------------ *)
(* The scorer: OptimizedScorer of scoring_consumer.py (58-254).             *)
(* Python computes the scores in binary floating point; here they are exact *)
(* fractions n/d in lowest terms, so that equal numbers are equal records.  *)
(* ------------------------------------------------------------------------ *)
RECURSIVE GCD(_, _)
GCD(a, b) == IF b = 0 THEN a ELSE GCD(b, a % b)

\* n/d for n >= 0 and d > 0.
Frac(n, d) == LET g == GCD(n, d) IN [n |-> n \div g, d |-> d \div g]

Whole(k) == [n |-> k, d |-> 1]

FAdd(x, y) == Frac(x.n * y.d + y.n * x.d, x.d * y.d)

FMul(x, y) == Frac(x.n * y.n, x.d * y.d)

FLeq(x, y) == x.n * y.d <= y.n * x.d

\* round(x, 2), counted in hundredths; Python rounds a tie to the even digit.
round2(x) ==
  LET q == (x.n * 100) \div x.d
      r == (x.n * 100) % x.d
  IN IF 2 * r > x.d \/ (2 * r = x.d /\ q % 2 = 1) THEN q + 1 ELSE q

\* "if final_ratio >= 70" (lines 122 and 151).
MATCH_THRESHOLD == 70

\* The factor 50 of line 128 and the factor 20 of line 157.
REQUIRED_POOL == 50

PREFERRED_POOL == 20

\* "score = 20" (line 199) and "return 10" (line 214).
EXPERIENCE_POOL == 20

EDUCATION_POOL == 10

\* A degree, a required level or a skill is the sequence of its characters;
\* str.lower() over the letters that occur.
lower(text) ==
  [i \in 1..Len(text) |->
     CASE text[i] = "S" -> "s" [] text[i] = "M" -> "m" [] text[i] = "B" -> "b"
       [] text[i] = "A" -> "a" [] text[i] = "D" -> "d" [] text[i] = "P" -> "p"
       [] text[i] = "G" -> "g" [] OTHER -> text[i]]

\* The characters of the skill names that are compared as strings.
characters(name) ==
  CASE name = "Python" -> <<"P", "y", "t", "h", "o", "n">>
    [] name = "python" -> <<"p", "y", "t", "h", "o", "n">>
    [] name = "Go" -> <<"G", "o">>
    [] name = "golang" -> <<"g", "o", "l", "a", "n", "g">>
    [] name = "sql" -> <<"s", "q", "l">>
    [] name = "docker" -> <<"d", "o", "c", "k", "e", "r">>
    [] name = "pythons" -> <<"p", "y", "t", "h", "o", "n", "s">>

\* max(x, y) of two numbers.
max2(x, y) == IF x >= y THEN x ELSE y

\* The length of the longest common subsequence of two strings.
RECURSIVE lcs(_, _)
lcs(s1, s2) ==
  IF s1 = <<>> \/ s2 = <<>> THEN 0
  ELSE IF Head(s1) = Head(s2) THEN 1 + lcs(Tail(s1), Tail(s2))
       ELSE max2(lcs(Tail(s1), s2), lcs(s1, Tail(s2)))

\* rapidfuzz.fuzz.ratio: the normalized Indel similarity
\* 100 * 2 * lcs / (len(s1) + len(s2)), here its whole part; 100 for two
\* empty strings.
fuzz_ratio(s1, s2) ==
  IF Len(s1) + Len(s2) = 0 THEN 100
  ELSE (200 * lcs(s1, s2)) \div (Len(s1) + Len(s2))

\* The largest number of a non-empty set of numbers.
largest(ratios) == CHOOSE r \in ratios : \A q \in ratios : q <= r

\* The best fuzz.ratio of the shorter string against a window of the longer
\* one, the windows being the substrings of the length of the shorter string
\* and the shorter prefixes and suffixes.
partial_alignment(shorter, longer) ==
  IF shorter = <<>> THEN (IF longer = <<>> THEN 100 ELSE 0)
  ELSE largest(
         {fuzz_ratio(shorter, SubSeq(longer, i, i + Len(shorter) - 1)) :
            i \in 1..(Len(longer) - Len(shorter) + 1)}
         \cup {fuzz_ratio(shorter, SubSeq(longer, 1, n)) :
                 n \in 1..(Len(shorter) - 1)}
         \cup {fuzz_ratio(shorter, SubSeq(longer, Len(longer) - n + 1,
                                          Len(longer))) :
                 n \in 1..(Len(shorter) - 1)})

\* rapidfuzz.fuzz.partial_ratio: the shorter of the two strings is aligned
\* along the longer one.
fuzz_partial_ratio(s1, s2) ==
  IF Len(s1) <= Len(s2) THEN partial_alignment(s1, s2)
  ELSE partial_alignment(s2, s1)

\* Lines 118-120: final_ratio = max(fuzz.ratio, fuzz.partial_ratio).
text_ratio(a, b) == max2(fuzz_ratio(a, b), fuzz_partial_ratio(a, b))

\* A skill of a profile is a string. rapidfuzz is not part of the repository:
\* a profile skill [text |-> t] is compared as rapidfuzz compares strings,
\* and a profile skill [like |-> s, ratio |-> r] is a string given by what
\* the comparison makes of it: its max(fuzz.ratio, fuzz.partial_ratio)
\* (lines 118-120) against the requirement skill s is r and is 0 against
\* every other requirement skill. The entry with like = "N/A" is the literal
\* 'N/A'. Both sides are lower-cased (lines 100-102 and 113).
final_ratio(skill_lower, profile_skill) ==
  IF "text" \in DOMAIN profile_skill
  THEN text_ratio(lower(characters(skill_lower)),
                  lower(characters(profile_skill.text)))
  ELSE IF profile_skill.like = skill_lower THEN profile_skill.ratio ELSE 0

\* Lines 93-102: the names that are neither empty nor 'N/A'.
normalize_skills(profile_skills) ==
  SelectSeq(profile_skills,
            LAMBDA s : IF "text" \in DOMAIN s
                       THEN s.text # "N/A" /\ s.text # ""
                       ELSE s.like # "N/A" /\ s.like # "")

\* The loop of lines 117-125 (and 146-154): the largest final_ratio that
\* reaches the threshold, 0 when none does (matched stays False).
\* Lines 122-125: a final_ratio that reaches the threshold and exceeds the
\* best so far replaces it.
better_ratio(before, fr) ==
  IF fr >= MATCH_THRESHOLD /\ fr > before THEN fr ELSE before

RECURSIVE best_ratio(_, _)
best_ratio(skill_lower, skills_list) ==
  IF skills_list = <<>> THEN 0
  ELSE better_ratio(
         best_ratio(skill_lower, SubSeq(skills_list, 1, Len(skills_list) - 1)),
         final_ratio(skill_lower, skills_list[Len(skills_list)]))

\* sum(required.values()) (lines 110 and 139); a mapping is the sequence of
\* its items in iteration order.
RECURSIVE total_weight(_)
total_weight(mapping) ==
  IF mapping = <<>> THEN 0
  ELSE mapping[1].weight + total_weight(Tail(mapping))

RECURSIVE FSum(_)
FSum(xs) == IF xs = <<>> THEN Whole(0) ELSE FAdd(xs[1], FSum(Tail(xs)))

\* Line 128 (and 157): (weight / total_weight) * pool * (best_ratio / 100).
skill_points(weight, tw, pool, best) == Frac(weight * pool * best, tw * 100)

\* req_matches and pref_matches (want = TRUE, lines 130 and 159) and
\* req_missing (want = FALSE, line 132): the skills in iteration order, best
\* holding the best ratio of each.
RECURSIVE skills_where(_, _, _)
skills_where(mapping, best, want) ==
  IF mapping = <<>> THEN <<>>
  ELSE (IF (best[1] > 0) = want THEN <<mapping[1].skill>> ELSE <<>>)
       \o skills_where(Tail(mapping), Tail(best), want)

\* The best ratio of every skill of a mapping, in iteration order.
best_ratios(mapping, skills_list) ==
  [i \in 1..Len(mapping) |-> best_ratio(mapping[i].skill, skills_list)]

\* Lines 126-128 (and 155-157): the points of each skill of a mapping.
awarded_points(mapping, pool, tw, best) ==
  [i \in 1..Len(mapping) |->
     IF best[i] > 0
     THEN skill_points(mapping[i].weight, tw, pool, best[i])
     ELSE Whole(0)]

\* Lines 126-132 (and 155-159) given the weight sum and the best ratios:
\* the points of each skill, their sum, and the matched and missing skills.
\* weight / total_weight raises ZeroDivisionError when a skill matches and
\* the weights sum to 0.
pool_result(mapping, pool, tw, best) ==
  IF \E i \in 1..Len(mapping) : best[i] > 0 /\ tw = 0
  THEN [raises |-> TRUE]
  ELSE [raises |-> FALSE,
        points |-> awarded_points(mapping, pool, tw, best),
        score |-> FSum(awarded_points(mapping, pool, tw, best)),
        matches |-> skills_where(mapping, best, TRUE),
        missing |-> skills_where(mapping, best, FALSE)]

\* The loop over one mapping (109-132 for required, 138-159 for preferred).
score_pool(mapping, skills_list, pool) ==
  pool_result(mapping, pool, total_weight(mapping),
              best_ratios(mapping, skills_list))

\* Lines 161-171 given the results of the two loops: the return value, the
\* per-skill points and the entry stored in self.breakdown (163-169).
skills_result(reqs, req, pref) ==
  IF req.raises \/ pref.raises
  THEN [raises |-> TRUE]
  ELSE [raises |-> FALSE,
        score |-> FAdd(req.score, pref.score),
        req_points |-> req.points,
        pref_points |-> pref.points,
        breakdown |->
          [score |-> round2(FAdd(req.score, pref.score)),
           required_matched |-> Len(req.matches),
           required_total |-> Len(reqs.required_skills),
           required_missing |-> req.missing,
           preferred_matched |-> Len(pref.matches)]]

\* _score_skills (88-171).
score_skills(profile_skills, reqs) ==
  skills_result(
    reqs,
    score_pool(reqs.required_skills, normalize_skills(profile_skills),
               REQUIRED_POOL),
    score_pool(reqs.preferred_skills, normalize_skills(profile_skills),
               PREFERRED_POOL))

\* ProfileScorer and Scorer compare with fuzz.ratio alone (scorer.py 90,
\* score.py 94) against the threshold 80, for the pools 30 and 10.
SIMILARITY_THRESHOLD == 80
REQUIRED_MAX == 30
PREFERRED_MAX == 10

plain_ratio(skill_lower, profile_skill) ==
  fuzz_ratio(lower(characters(skill_lower)),
             lower(characters(profile_skill.text)))

\* scorer.py 89-96: the largest ratio that reaches the threshold, 0 when none.
RECURSIVE best_match_ratio(_, _)
best_match_ratio(skill_lower, skills_list) ==
  IF skills_list = <<>> THEN 0
  ELSE LET before == best_match_ratio(skill_lower,
                        SubSeq(skills_list, 1, Len(skills_list) - 1))
           ratio == plain_ratio(skill_lower, skills_list[Len(skills_list)])
       IN IF ratio >= SIMILARITY_THRESHOLD /\ ratio > before
          THEN ratio ELSE before

\* score.py 93-99: the ratio of the first profile skill that reaches the
\* threshold (the loop breaks there), 0 when none does.
RECURSIVE first_match_ratio(_, _)
first_match_ratio(skill_lower, skills_list) ==
  IF skills_list = <<>> THEN 0
  ELSE IF plain_ratio(skill_lower, Head(skills_list)) >= SIMILARITY_THRESHOLD
       THEN plain_ratio(skill_lower, Head(skills_list))
       ELSE first_match_ratio(skill_lower, Tail(skills_list))

\* ProfileScorer._score_skills (scorer.py 59-162): the points of each
\* required and each preferred skill.
ProfileScorer_score_skills(profile_skills, reqs) ==
  [req_points |->
     awarded_points(reqs.required_skills, REQUIRED_MAX,
                    total_weight(reqs.required_skills),
                    [i \in 1..Len(reqs.required_skills) |->
                       best_match_ratio(reqs.required_skills[i].skill,
                                        normalize_skills(profile_skills))]),
   pref_points |->
     awarded_points(reqs.preferred_skills, PREFERRED_MAX,
                    total_weight(reqs.preferred_skills),
                    [i \in 1..Len(reqs.preferred_skills) |->
                       best_match_ratio(reqs.preferred_skills[i].skill,
                                        normalize_skills(profile_skills))])]

\* Scorer._score_skills (score.py 64-113): the points of each required and
\* each preferred skill.
Scorer_score_skills(profile_skills, reqs) ==
  [req_points |->
     awarded_points(reqs.required_skills, REQUIRED_MAX,
                    total_weight(reqs.required_skills),
                    [i \in 1..Len(reqs.required_skills) |->
                       first_match_ratio(reqs.required_skills[i].skill,
                                         normalize_skills(profile_skills))]),
   pref_points |->
     awarded_points(reqs.preferred_skills, PREFERRED_MAX,
                    total_weight(reqs.preferred_skills),
                    [i \in 1..Len(reqs.preferred_skills) |->
                       first_match_ratio(reqs.preferred_skills[i].skill,
                                         normalize_skills(profile_skills))])]

\* A duration is the sequence of the blank-separated tokens of the string.
Digits == {"1", "2", "6", "8"}

int(token) == CASE token = "1" -> 1 [] token = "2" -> 2
                [] token = "6" -> 6 [] token = "8" -> 8

\* re.search(r'(\d+)\s*yr', duration) and re.search(r'(\d+)\s*mo', duration)
\* (187-192): the number of the leftmost number token that a token starting
\* with the unit follows, 0 when there is none.
unit_number(duration, units) ==
  LET hits == {i \in 1..(Len(duration) - 1) :
                 duration[i] \in Digits /\ duration[i + 1] \in units}
  IN IF hits = {} THEN 0
     ELSE int(duration[CHOOSE i \in hits : \A j \in hits : i <= j])

\* Lines 177-194.
RECURSIVE total_months(_)
total_months(experiences) ==
  IF experiences = <<>> THEN 0
  ELSE (IF experiences[1].duration = <<>> THEN 0
        ELSE unit_number(experiences[1].duration, {"yr", "yrs"}) * 12
             + unit_number(experiences[1].duration, {"mo", "mos"}))
       + total_months(Tail(experiences))

\* _score_experience (173-208); years is round(total_years, 1) in tenths.
score_experience(experiences, reqs) ==
  LET months == total_months(experiences)
      min_years == reqs.min_experience_years
      pts == IF months >= 12 * min_years THEN Whole(EXPERIENCE_POOL)
                ELSE IF min_years > 0
                     THEN Frac(months * EXPERIENCE_POOL, 12 * min_years)
                     ELSE Whole(0)
      tenths == LET q == (months * 10) \div 12
                    r == (months * 10) % 12
                IN IF 2 * r > 12 \/ (2 * r = 12 /\ q % 2 = 1) THEN q + 1 ELSE q
  IN [score |-> pts,
      breakdown |-> [score |-> round2(pts), years |-> tenths]]

\* ProfileScorer._score_experience (scorer.py 247-309): an empty list returns
\* 0 before min_experience_years is looked at (255-262); a duration 'N/A'
\* holds neither token, so skipping it (272) adds the same 0 months.
ProfileScorer_score_experience(experiences, reqs) ==
  IF experiences = <<>> THEN Whole(0)
  ELSE score_experience(experiences, reqs).score

\* "level_name in degree": level_name occurs in text as a substring.
occurs_in(level_name, text) ==
  \E i \in 0..(Len(text) - Len(level_name)) :
     SubSeq(text, i + 1, i + Len(level_name)) = level_name

\* The table of lines 221-227.
levels ==
  <<[level_name |-> <<"h", "i", "g", "h", " ", "s", "c", "h", "o", "o", "l">>, level_val |-> 1],
     [level_name |-> <<"s", "m", "a">>, level_val |-> 1],
     [level_name |-> <<"s", "m", "k">>, level_val |-> 1],
     [level_name |-> <<"d", "i", "p", "l", "o", "m", "a">>, level_val |-> 2],
     [level_name |-> <<"a", "s", "s", "o", "c", "i", "a", "t", "e">>, level_val |-> 2],
     [level_name |-> <<"d", "3">>, level_val |-> 2],
     [level_name |-> <<"b", "a", "c", "h", "e", "l", "o", "r">>, level_val |-> 3],
     [level_name |-> <<"s", "1">>, level_val |-> 3],
     [level_name |-> <<"s", "a", "r", "j", "a", "n", "a">>, level_val |-> 3],
     [level_name |-> <<"m", "a", "s", "t", "e", "r">>, level_val |-> 4],
     [level_name |-> <<"s", "2">>, level_val |-> 4],
     [level_name |-> <<"m", "b", "a">>, level_val |-> 4],
     [level_name |-> <<"d", "o", "c", "t", "o", "r", "a", "l">>, level_val |-> 5],
     [level_name |-> <<"p", "h", "d">>, level_val |-> 5],
     [level_name |-> <<"s", "3">>, level_val |-> 5]>>

\* level_hierarchy of ProfileScorer._score_education (scorer.py 337-346).
level_hierarchy ==
  <<[level_name |-> <<"h", "i", "g", "h", " ", "s", "c", "h", "o", "o", "l">>, level_val |-> 1],
     [level_name |-> <<"d", "i", "p", "l", "o", "m", "a">>, level_val |-> 2],
     [level_name |-> <<"a", "s", "s", "o", "c", "i", "a", "t", "e">>, level_val |-> 2],
     [level_name |-> <<"b", "a", "c", "h", "e", "l", "o", "r">>, level_val |-> 3],
     [level_name |-> <<"m", "a", "s", "t", "e", "r">>, level_val |-> 4],
     [level_name |-> <<"m", "b", "a">>, level_val |-> 4],
     [level_name |-> <<"d", "o", "c", "t", "o", "r", "a", "l">>, level_val |-> 5],
     [level_name |-> <<"p", "h", "d">>, level_val |-> 5]>>

\* The loops of lines 229-238 and 240-244 over one text: the largest value
\* of a keyword of table that occurs in it, 0 when none occurs.
level_of(table, text) ==
  LET vals == {table[k].level_val : k \in {j \in 1..Len(table) :
                 occurs_in(table[j].level_name, text)}}
  IN IF vals = {} THEN 0 ELSE CHOOSE v \in vals : \A u \in vals : u <= v

highest_level(table, texts) ==
  LET vals == {level_of(table, lower(texts[i])) : i \in 1..Len(texts)}
  IN IF vals = {} THEN 0 ELSE CHOOSE v \in vals : \A u \in vals : u <= v

\* The score of lines 246-251 for the degrees of education.
education_points(table, education, required) ==
  LET highest == highest_level(table, [i \in 1..Len(education) |->
                                         education[i].degree])
      required_level == highest_level(table, required)
  IN IF highest >= required_level THEN Whole(EDUCATION_POOL)
     ELSE IF highest > 0
          THEN Frac(highest * EDUCATION_POOL, required_level)
          ELSE Whole(0)

\* _score_education with its first two tests in the other order.
score_education_profile_first(education, reqs) ==
  LET required == IF reqs.education_level.present
                  THEN reqs.education_level.value ELSE <<>>
      pts == education_points(levels, education, required)
  IN IF education = <<>>
     THEN [score |-> Whole(0), breakdown |-> [score |-> 0]]
     ELSE IF required = <<>>
          THEN [score |-> Whole(EDUCATION_POOL),
                breakdown |-> [score |-> round2(Whole(EDUCATION_POOL))]]
          ELSE [score |-> pts, breakdown |-> [score |-> round2(pts)]]

\* _score_education (210-254). requirements.get('education_level', []) is
\* [] when the key is absent; an education entry without a degree has the
\* degree '' (line 233).
score_education(education, reqs) ==
  LET required == IF reqs.education_level.present
                  THEN reqs.education_level.value ELSE <<>>
      pts == education_points(levels, education, required)
  IN IF required = <<>>
     THEN [score |-> Whole(EDUCATION_POOL),
           breakdown |-> [score |-> round2(Whole(EDUCATION_POOL))]]
     ELSE IF education = <<>>
          THEN [score |-> Whole(0), breakdown |-> [score |-> 0]]
          ELSE [score |-> pts, breakdown |-> [score |-> round2(pts)]]

\* ProfileScorer._score_education (scorer.py 311-393): the same tests in the
\* same order over level_hierarchy; a degree 'n/a' is skipped (line 357) and
\* holds no keyword.
ProfileScorer_score_education(education, reqs) ==
  LET required_levels == IF reqs.education_level.present
                         THEN reqs.education_level.value ELSE <<>>
      pts == education_points(level_hierarchy, education, required_levels)
  IN IF required_levels = <<>>
     THEN [score |-> Whole(EDUCATION_POOL),
           breakdown |-> [score |-> round2(Whole(EDUCATION_POOL))]]
     ELSE IF education = <<>>
          THEN [score |-> Whole(0), breakdown |-> [score |-> 0]]
          ELSE [score |-> pts, breakdown |-> [score |-> round2(pts)]]

\* self.breakdown = {} (line 62): no key is set.
Unset == [unset |-> TRUE]

EmptyBreakdown == [skills |-> Unset, experience |-> Unset, education |-> Unset]

\* self.breakdown[key] = value (lines 163, 203, 214, 218, 253).
setdefault_breakdown(bd, key, value) ==
  IF bd[key] = Unset THEN [bd EXCEPT ![key] = value] ELSE bd

set_breakdown(bd, key, value) == [bd EXCEPT ![key] = value]

\* What a call that raises leaves to its caller.
Raised == [raised |-> TRUE]

\* OptimizedScorer.score (64-86) on an instance whose self.breakdown is bd:
\* the ScoreResult it returns (or Raised) and self.breakdown afterwards.
\* total_score and percentage are in hundredths. The returned 'breakdown' is
\* self.breakdown itself (line 85): result holds its value at the return.
score_result(bd, sk, ex, ed) ==
  LET total == FAdd(FAdd(sk.score, ex.score), ed.score)
      percentage == FMul(FMul(total, Frac(1, 100)), Whole(100))
      after == set_breakdown(
                 set_breakdown(
                   set_breakdown(bd, "skills", sk.breakdown),
                   "experience", ex.breakdown),
                 "education", ed.breakdown)
  IN IF sk.raises
     THEN [result |-> Raised, breakdown |-> bd]
     ELSE [result |-> [raised |-> FALSE,
                       total_score |-> round2(total),
                       percentage |-> round2(percentage),
                       breakdown |-> after],
           breakdown |-> after]

\* score (64-86): the three parts are computed, then summed and stored.
score(prof, reqs, bd) ==
  score_result(bd,
               score_skills(prof.skills, reqs),
               score_experience(prof.experiences, reqs),
               score_education(prof.education, reqs))

(* ----------------------- scoring one profile ----------------------------- *)
\* Bounds of the inputs of the scorer.
MaxWeight == 1

MaxProfileSkills == 2

Weights == 0..MaxWeight

Ratios == {69, 70, 100}

\* The mappings skill -> weight over some of names, in every iteration order.
Mappings(names) ==
  {m \in UNION {[1..k -> [skill : names, weight : Weights]] :
                  k \in 0..Cardinality(names)} :
     \A i, j \in 1..Len(m) : i # j => m[i].skill # m[j].skill}

\* 'education_level' absent, empty, naming the level S1, or naming 'S-1',
\* which holds no keyword of the tables.
EducationLevels ==
  {[present |-> FALSE, value |-> <<>>], [present |-> TRUE, value |-> <<>>],
   [present |-> TRUE, value |-> <<<<"S", "1">>>>],
   [present |-> TRUE, value |-> <<<<"S", "-", "1">>>>]}

\* The RequirementSpec {Python: 3, Go: 1} and the profile with the skills
\* [python, golang].
PythonGoRequirements ==
  [required_skills |-> <<[skill |-> "Python", weight |-> 3],
                         [skill |-> "Go", weight |-> 1]>>,
   preferred_skills |-> <<>>,
   min_experience_years |-> 2,
   education_level |-> [present |-> FALSE, value |-> <<>>]]

PythonGolangProfile ==
  [skills |-> <<[text |-> "python"], [text |-> "golang"]>>,
   experiences |-> <<>>,
   education |-> <<>>]

\* The profile with the skills [pythons, python]: two skills that both
\* reach every threshold against Python.
PythonsPythonProfile ==
  [skills |-> <<[text |-> "pythons"], [text |-> "python"]>>,
   experiences |-> <<>>,
   education |-> <<>>]

\* The same skills in every order.
reorderings(skills) ==
  {[i \in 1..Len(skills) |-> skills[p[i]]] :
     p \in {f \in [1..Len(skills) -> 1..Len(skills)] :
              \A i, j \in 1..Len(skills) : i # j => f[i] # f[j]}}

\* Every pair of skill mappings without an education requirement, and every
\* education requirement with one required skill.
RequirementSpecs ==
  [required_skills : Mappings({"python", "sql"}),
   preferred_skills : Mappings({"docker"}),
   min_experience_years : {2},
   education_level : {[present |-> FALSE, value |-> <<>>]}]
  \cup
  [required_skills : {<<[skill |-> "python", weight |-> 1]>>},
   preferred_skills : {<<>>},
   min_experience_years : {0, 2},
   education_level : EducationLevels]

ProfileSkills ==
  [like : {"python", "sql", "docker"}, ratio : Ratios]
    \cup {[like |-> "N/A", ratio |-> 0]}

\* No education, an entry without degree, an unrecognised degree, and 'D3'.
Educations ==
  {<<>>, <<[degree |-> <<>>]>>, <<[degree |-> <<"x", "y", "z">>]>>,
   <<[degree |-> <<"D", "3">>]>>}

\* No experience, the durations '1 yr 6 mo' and '8 mo', and '8 mo' alone.
Experiences ==
  {<<>>, <<[duration |-> <<"1", "yr", "6", "mo">>],
           [duration |-> <<"8", "mo">>]>>,
   <<[duration |-> <<"8", "mo">>]>>}

\* The three factors are computed apart from each other (lines 69-78):
\* profiles with every skill list and one education and experience, and
\* profiles with every education and experience and at most one skill.
Profiles ==
  [skills : UNION {[1..k -> ProfileSkills] : k \in 0..MaxProfileSkills},
   experiences : {<<>>},
   education : {<<>>}]
  \cup
  [skills : {<<>>, <<[like |-> "python", ratio |-> 100]>>},
   experiences : Experiences,
   education : Educations]

\* The profiles scored between two calls for the profile under watch.
OtherProfiles ==
  {q \in Profiles : /\ q.education = <<>> /\ q.experiences = <<>>
                    /\ Len(q.skills) <= 1
                    /\ \A i \in 1..Len(q.skills) :
                          q.skills[i] = [like |-> "python", ratio |-> 100]}

\* The same mappings read in another iteration order.
SameMapping(r1, r2) ==
  /\ {r1.required_skills[i] : i \in 1..Len(r1.required_skills)}
       = {r2.required_skills[i] : i \in 1..Len(r2.required_skills)}
  /\ {r1.preferred_skills[i] : i \in 1..Len(r1.preferred_skills)}
       = {r2.preferred_skills[i] : i \in 1..Len(r2.preferred_skills)}
  /\ r1.min_experience_years = r2.min_experience_years
  /\ r1.education_level = r2.education_level

NoCall == [none |-> TRUE]

\* OptimizedScorer(requirements) (60-62, called at line 427) for the same
\* RequirementSpec, its mappings in any iteration order.
NewScorer(reqs) ==
  /\ SameMapping(reqs, requirements)
  /\ requirements' = reqs
  /\ breakdown' = EmptyBreakdown
  /\ UNCHANGED <<profile, first, last>>
  /\ UNCHANGED <<now, scoreQ, spublished, published, crawlQ, eunacked, ebuf,
                 epc, ejob, eprofile, outFiles, estats, ehist, sunacked, sbuf,
                 spc, sjob, scoreFiles, sstats, shist, main, unfinished,
                 received, loaded>>

\* scorer.score(profile) (line 428) on the current instance.
Score ==
  LET r == score(profile, requirements, breakdown)
      call == [requirements |-> requirements, result |-> r.result]
  IN /\ breakdown' = r.breakdown
     /\ first' = IF first = NoCall THEN call ELSE first
     /\ last' = [requirements |-> requirements, result |-> r.result,
                 reused |-> breakdown # EmptyBreakdown]
     /\ UNCHANGED <<requirements, profile>>
     /\ UNCHANGED <<now, scoreQ, spublished, published, crawlQ, eunacked,
                    ebuf, epc, ejob, eprofile, outFiles, estats, ehist,
                    sunacked, sbuf, spc, sjob, scoreFiles, sstats, shist,
                    main, unfinished, received, loaded>>

\* scorer.score(q) for another profile on the current instance.
ScoreOther(q) ==
  /\ q # profile
  /\ breakdown' = score(q, requirements, breakdown).breakdown
  /\ UNCHANGED <<requirements, profile, first, last>>
  /\ UNCHANGED <<now, scoreQ, spublished, published, crawlQ, eunacked, ebuf,
                 epc, ejob, eprofile, outFiles, estats, ehist, sunacked, sbuf,
                 spc, sjob, scoreFiles, sstats, shist, main, unfinished,
                 received, loaded>>

(* --------------------------- specification ----------------------------- *)
NoCount == [c \in {"completed", "failed", "skipped"} |-> 0]

NoHist == [url |-> "", deliveries |-> 0, hadRecord |-> FALSE, prior |-> {},
           crawler |-> FALSE, raised |-> "none", wrote |-> FALSE, sent |-> 0,
           acks |-> 0, nacks |-> 0, counted |-> NoCount]

NoScoreHist == [url |-> "", req |-> <<>>, deliveries |-> 0, hadRecord |-> FALSE,
                overlapped |-> FALSE, computed |-> 0, wrote |-> 0,
                sink |-> "none", acks |-> 0, nacks |-> 0, counted |-> NoCount]

\* The two broker pools, the in-process pool and the main thread at start.
InitPools ==
  /\ now = 0
  /\ published = 0
  /\ crawlQ = <<>>
  /\ eunacked = [w \in Workers |-> {}]
  /\ ebuf = [w \in Workers |-> <<>>]
  /\ epc = [w \in Workers |-> "idle"]
  /\ ejob = [w \in Workers |-> NoJob]
  /\ eprofile = [w \in Workers |-> NoProfile]
  /\ outFiles = {}
  /\ scoreQ = <<>>
  /\ estats = [processing |-> 0, completed |-> 0, failed |-> 0, skipped |-> 0,
               sent_to_scoring |-> 0]
  /\ ehist = [i \in JobIds |-> NoHist]
  /\ spublished = 0
  /\ sunacked = [w \in Workers |-> {}]
  /\ sbuf = [w \in Workers |-> <<>>]
  /\ spc = [w \in Workers |-> "idle"]
  /\ sjob = [w \in Workers |-> NoScoreJob]
  /\ scoreFiles = {}
  /\ sstats = [processing |-> 0, completed |-> 0, failed |-> 0, skipped |-> 0,
               supabase_updated |-> 0, supabase_failed |-> 0]
  /\ shist = [i \in JobIds |-> NoScoreHist]
  /\ main = "running"
  /\ unfinished = 0
  /\ received = {}
  /\ loaded = [w \in Workers |-> NoLoad]

\* No scorer instance exists outside process_message.
NoScorer ==
  /\ requirements = NoCall
  /\ breakdown = EmptyBreakdown
  /\ profile = NoCall
  /\ first = NoCall
  /\ last = NoCall

Init == InitPools /\ NoScorer

Next ==
  \/ Tick
  \/ \E u \in URLS : PublishUrl(u)
  \/ \E w \in Workers :
       \/ BrokerDeliverCrawl(w)
       \/ CallbackEnter(w)
       \/ ExtractProfile(w)
       \/ SaveProfileCheck(w)
       \/ SaveProfileWrite(w)
       \/ SendToScoring(w)
       \/ Complete(w)
       \/ Except(w)
       \/ Finally(w)

Spec == Init /\ [][Next]_vars

\* The Score messages a producer may publish.
SCORE_URLS == {"a", "b", "c", ""}

ScoreMessages ==
  {[id |-> 0, kind |-> "object",
    profile_data |-> [profile_url |-> u, name |-> name_slug(u)],
    requirements_id |-> r] : u \in SCORE_URLS, r \in REQ_IDS}

NextScoring ==
  \/ Tick
  \/ \E m \in ScoreMessages : PublishScore(m)
  \/ \E w \in Workers :
       \/ BrokerDeliverScore(w)
       \/ ScoreCallbackEnter(w)
       \/ LoadAndScore(w)
       \/ SaveScoreCheck(w)
       \/ SaveScoreWrite(w)
       \/ UpdateSupabase(w)
       \/ ScoreSuccess(w)
       \/ ScoreFailure(w)
       \/ ScoreFinally(w)

SpecScoring == Init /\ [][NextScoring]_vars

\* Either pool run on its own: the scoring pool fed by a producer while no
\* Crawl job was ever published, or the extraction pool while every Score job
\* in the queue is one it sent.  The behaviours are those of Spec and those of
\* SpecScoring.
NextPools ==
  \/ published = 0 /\ NextScoring
  \/ spublished = estats.sent_to_scoring /\ Next

SpecPools == Init /\ [][NextPools]_vars

(* -------------------------- malformed messages -------------------------- *)
\* The bodies a client may publish to the crawl queue, as json.loads and
\* message.get('url') see them (lines 194-197): not JSON at all ("garbage"), a
\* JSON value that is not an object ("nonobject"), or an object whose url is
\* a URL or is missing or empty ("").
CrawlBodies ==
  {[id |-> 0, kind |-> "object", url |-> u] : u \in URLS \cup {""}}
    \cup {[id |-> 0, kind |-> k, url |-> ""] : k \in {"garbage", "nonobject"}}

\* basic_publish of any body to the crawl queue.
PublishBody(m) ==
  /\ published < MaxJobs
  /\ published' = published + 1
  /\ crawlQ' = Append(crawlQ, [m EXCEPT !.id = published + 1])
  /\ ehist' = [ehist EXCEPT ![published + 1].url = m.url]
  /\ UNCHANGED <<now, eunacked, ebuf, epc, ejob, eprofile, outFiles, scoreQ,
                 estats, spublished, svars>>

\* Score bodies that json.loads (line 507) or process_message (397-403)
\* rejects: not JSON, not an object, or an object without profile_data.
MalformedScoreMessages ==
  {[id |-> 0, kind |-> k, profile_data |-> NoProfile, requirements_id |-> REQ_DEV] :
     k \in {"garbage", "nonobject", "noprofile"}}

NextInvalid ==
  \/ /\ published = 0
     /\ \/ Tick
        \/ \E m \in MalformedScoreMessages \cup ScoreMessages : PublishScore(m)
        \/ \E w \in Workers :
             \/ BrokerDeliverScore(w)
             \/ ScoreCallbackEnter(w)
             \/ LoadAndScore(w)
             \/ SaveScoreCheck(w)
             \/ SaveScoreWrite(w)
             \/ UpdateSupabase(w)
             \/ ScoreSuccess(w)
             \/ ScoreFailure(w)
             \/ ScoreFinally(w)
  \/ /\ spublished = estats.sent_to_scoring
     /\ \/ Tick
        \/ \E m \in CrawlBodies : PublishBody(m)
        \/ \E w \in Workers :
             \/ BrokerDeliverCrawl(w)
             \/ CallbackEnter(w)
             \/ ExtractProfile(w)
             \/ SaveProfileCheck(w)
             \/ SaveProfileWrite(w)
             \/ SendToScoring(w)
             \/ Complete(w)
             \/ Except(w)
             \/ Finally(w)

\* Either pool run on its own (as in SpecPools), fed with any body.
SpecInvalid == Init /\ [][NextInvalid]_vars

(* ------------- crawler/main.py: the in-process queue pool --------------- *)
\* main 208-213: url_queue.put(url) for every URL, before the workers start.
QueuePut(url) ==
  /\ main = "running"
  /\ published < MaxJobs
  /\ published = Len(crawlQ)
  /\ \A w \in Workers : epc[w] = "idle" /\ ejob[w] = NoJob
  /\ published' = published + 1
  /\ crawlQ' = Append(crawlQ, [id |-> published + 1, kind |-> "object", url |-> url])
  /\ unfinished' = unfinished + 1
  /\ ehist' = [ehist EXCEPT ![published + 1].url = url]
  /\ UNCHANGED <<now, eunacked, ebuf, epc, ejob, eprofile, outFiles, scoreQ,
                 estats, spublished, sunacked, sbuf, spc, sjob, scoreFiles,
                 sstats, shist, main, received, loaded,
                 cvars>>

\* worker 93-108: url_queue.get, then the duplicate check: a hit counts
\* skipped, calls task_done and goes on; else processing += 1.
WorkerGet(w) ==
  /\ main # "exited"
  /\ published > 0
  /\ epc[w] = "idle"
  /\ crawlQ # <<>>
  /\ crawlQ' = Tail(crawlQ)
  /\ ejob' = [ejob EXCEPT ![w] = Head(crawlQ)]
  /\ LET m == Head(crawlQ)
         h == [ehist EXCEPT ![m.id].hadRecord =
                 \E f \in outFiles : f.complete /\ f.profile_url = m.url,
                            ![m.id].prior = CompletedJobs,
                            ![m.id].deliveries = @ + 1]
     IN IF check_if_already_crawled(m.url, outFiles)
        THEN /\ estats' = [estats EXCEPT !.skipped = @ + 1]
             /\ ehist' = Count(h, m.id, "skipped")
             /\ unfinished' = unfinished - 1
             /\ UNCHANGED epc
        ELSE /\ estats' = [estats EXCEPT !.processing = @ + 1]
             /\ ehist' = h
             /\ epc' = [epc EXCEPT ![w] = "create"]
             /\ UNCHANGED unfinished
  /\ UNCHANGED <<now, published, eunacked, ebuf, eprofile, outFiles, scoreQ,
                 spublished, sunacked, sbuf, spc, sjob, scoreFiles, sstats,
                 shist, main, received, loaded,
                 cvars>>

\* worker 110-117: crawler = LinkedInCrawler() is outside the inner try and
\* the outer try catches queue.Empty only: when it raises, the exception
\* leaves worker() and the thread ends.  login and get_profile are inside the
\* inner try.
WorkerCreate(w) ==
  /\ main # "exited"
  /\ epc[w] = "create"
  /\ LET h == [ehist EXCEPT ![ejob[w].id].crawler = TRUE]
     IN \/ /\ epc' = [epc EXCEPT ![w] = "dead"]
           /\ ehist' = [h EXCEPT ![ejob[w].id].raised = "LinkedInCrawler"]
           /\ UNCHANGED eprofile
        \/ /\ epc' = [epc EXCEPT ![w] = "except"]
           /\ ehist' = [h EXCEPT ![ejob[w].id].raised = "get_profile"]
           /\ UNCHANGED eprofile
        \/ /\ epc' = [epc EXCEPT ![w] = "save"]
           /\ eprofile' = [eprofile EXCEPT ![w] =
                [profile_url |-> ejob[w].url, name |-> name_slug(ejob[w].url)]]
           /\ ehist' = h
  /\ UNCHANGED <<now, published, crawlQ, eunacked, ebuf, ejob, outFiles, scoreQ,
                 estats, spublished, sunacked, sbuf, spc, sjob, scoreFiles,
                 sstats, shist, pvars>>

\* worker 120: save_profile_data(profile_data), the duplicate check and the
\* write, while the process lives.
WorkerSaveCheck(w) == main # "exited" /\ SaveProfileCheck(w)

WorkerSaveWrite(w) == main # "exited" /\ SaveProfileWrite(w)

\* worker 122-123: save_profile_data returned: completed += 1.
WorkerCompleted(w) ==
  /\ main # "exited"
  /\ epc[w] = "send"
  /\ epc' = [epc EXCEPT ![w] = "finally"]
  /\ estats' = [estats EXCEPT !.completed = @ + 1]
  /\ ehist' = Count(ehist, ejob[w].id, "completed")
  /\ UNCHANGED <<now, published, crawlQ, eunacked, ebuf, ejob, eprofile,
                 outFiles, scoreQ, spublished, sunacked, sbuf, spc, sjob,
                 scoreFiles, sstats, shist, pvars>>

\* worker 125-129: except Exception: failed += 1.
WorkerExcept(w) ==
  /\ main # "exited"
  /\ epc[w] = "except"
  /\ epc' = [epc EXCEPT ![w] = "finally"]
  /\ estats' = [estats EXCEPT !.failed = @ + 1]
  /\ ehist' = Count(ehist, ejob[w].id, "failed")
  /\ UNCHANGED <<now, published, crawlQ, eunacked, ebuf, ejob, eprofile,
                 outFiles, scoreQ, spublished, sunacked, sbuf, spc, sjob,
                 scoreFiles, sstats, shist, pvars>>

\* worker 131-138: finally: crawler.close(), url_queue.task_done(),
\* processing -= 1.  When close raises, the exception leaves worker(): the
\* thread ends before task_done.
WorkerFinally(w) ==
  /\ main # "exited"
  /\ epc[w] = "finally"
  /\ \/ /\ epc' = [epc EXCEPT ![w] = "idle"]
        /\ unfinished' = unfinished - 1
        /\ estats' = [estats EXCEPT !.processing = @ - 1]
     \/ /\ epc' = [epc EXCEPT ![w] = "dead"]
        /\ UNCHANGED <<unfinished, estats>>
  /\ UNCHANGED <<now, published, crawlQ, eunacked, ebuf, ejob, eprofile,
                 outFiles, scoreQ, ehist, spublished, sunacked, sbuf, spc,
                 sjob, scoreFiles, sstats, shist, main, received, loaded,
                 cvars>>

\* worker 140-144: get timed out (queue.Empty) and the queue is empty: break.
WorkerStop(w) ==
  /\ main # "exited"
  /\ published > 0
  /\ epc[w] = "idle"
  /\ crawlQ = <<>>
  /\ epc' = [epc EXCEPT ![w] = "stopped"]
  /\ UNCHANGED <<now, published, crawlQ, eunacked, ebuf, ejob, eprofile,
                 outFiles, scoreQ, estats, ehist, spublished, sunacked, sbuf,
                 spc, sjob, scoreFiles, sstats, shist, pvars>>

(* ------- crawler/main.py: the counters of the in-process workers -------- *)
\* worker() updates the shared stats dict with stats[k] += 1 and -= 1 outside
\* any lock (main.py 104, 108, 122, 126, 138): each update is a read of
\* stats[k] followed by a write of the read value plus or minus 1, and other
\* threads may run in between.

\* worker 93-101: url_queue.get and the duplicate check; the worker goes on
\* to skipped += 1 (a hit) or to processing += 1.
StatsGet(w) ==
  /\ main # "exited"
  /\ published > 0
  /\ epc[w] = "idle"
  /\ crawlQ # <<>>
  /\ crawlQ' = Tail(crawlQ)
  /\ ejob' = [ejob EXCEPT ![w] = Head(crawlQ)]
  /\ LET m == Head(crawlQ)
     IN /\ ehist' = [ehist EXCEPT ![m.id].hadRecord =
                       \E f \in outFiles : f.complete /\ f.profile_url = m.url,
                                  ![m.id].prior = CompletedJobs,
                                  ![m.id].deliveries = @ + 1]
        /\ epc' = [epc EXCEPT ![w] =
              IF check_if_already_crawled(m.url, outFiles)
              THEN "skipped" ELSE "processing"]
  /\ UNCHANGED <<now, published, eunacked, ebuf, eprofile, outFiles, scoreQ,
                 estats, spublished, sunacked, sbuf, spc, sjob, scoreFiles,
                 sstats, shist, pvars>>

\* The counter the worker updates next, by its position: 104 skipped, 108
\* processing, 122 completed, 126 failed, 138 processing.
StatsCounter(pc) ==
  CASE pc = "skipped" -> "skipped"
    [] pc = "processing" -> "processing"
    [] pc = "send" -> "completed"
    [] pc = "except" -> "failed"
    [] pc = "finally" -> "processing"

\* The read of stats[k].  In finally (131-138) crawler.close() comes first
\* and ends the thread when it raises; url_queue.task_done() follows.
StatsLoad(w) ==
  /\ main # "exited"
  /\ epc[w] \in {"skipped", "processing", "send", "except", "finally"}
  /\ loaded[w] = NoLoad
  /\ \/ /\ loaded' = [loaded EXCEPT ![w] =
              [counter |-> StatsCounter(epc[w]),
               value |-> estats[StatsCounter(epc[w])]]]
        /\ unfinished' = IF epc[w] = "finally" THEN unfinished - 1
                         ELSE unfinished
        /\ UNCHANGED epc
     \/ /\ epc[w] = "finally"
        /\ epc' = [epc EXCEPT ![w] = "dead"]
        /\ UNCHANGED <<loaded, unfinished>>
  /\ UNCHANGED <<now, published, crawlQ, eunacked, ebuf, ejob, eprofile,
                 outFiles, scoreQ, estats, ehist, spublished, sunacked, sbuf,
                 spc, sjob, scoreFiles, sstats, shist, main, received, cvars>>

\* The write of stats[k] with the value read before, and what follows the
\* update up to the next one: task_done and continue after skipped (105-106),
\* the end of the try block after completed or failed, the next get after
\* the decrement of processing.
StatsStore(w) ==
  /\ main # "exited"
  /\ loaded[w] # NoLoad
  /\ loaded' = [loaded EXCEPT ![w] = NoLoad]
  /\ estats' = [estats EXCEPT ![loaded[w].counter] =
                  loaded[w].value + (IF epc[w] = "finally" THEN -1 ELSE 1)]
  /\ epc' = [epc EXCEPT ![w] =
        CASE epc[w] = "skipped" -> "idle"
          [] epc[w] = "processing" -> "create"
          [] epc[w] = "send" -> "finally"
          [] epc[w] = "except" -> "finally"
          [] epc[w] = "finally" -> "idle"]
  /\ ehist' = IF epc[w] \in {"skipped", "send", "except"}
              THEN Count(ehist, ejob[w].id, loaded[w].counter)
              ELSE ehist
  /\ unfinished' = IF epc[w] = "skipped" THEN unfinished - 1 ELSE unfinished
  /\ UNCHANGED <<now, published, crawlQ, eunacked, ebuf, ejob, eprofile,
                 outFiles, scoreQ, spublished, sunacked, sbuf, spc, sjob,
                 scoreFiles, sstats, shist, main, received, cvars>>

NextStats ==
  \/ \E u \in URLS : QueuePut(u)
  \/ Tick
  \/ \E w \in Workers :
       \/ StatsGet(w)
       \/ StatsLoad(w)
       \/ StatsStore(w)
       \/ WorkerCreate(w)
       \/ WorkerSaveCheck(w)
       \/ WorkerSaveWrite(w)
       \/ WorkerStop(w)

\* The in-process pool of crawler/main.py with its counter updates as the
\* reads and writes they are.
SpecStats == Init /\ [][NextStats]_vars

(* ------------- broker failures in an extraction worker ----------------- *)
\* Every worker thread has its own connection and channel
\* (crawler_with_scoring.py 173-186).  When the thread ends, its connection
\* is closed (275-277) and the broker puts the deliveries it had not
\* acknowledged back at the head of the queue.
Requeued(w) ==
  IF eunacked[w] = {} THEN crawlQ
  ELSE <<CHOOSE m \in eunacked[w] : TRUE>> \o crawlQ

\* The broker delivers to the consumers that are still there.
ConsumerDeliver(w) == epc[w] # "stopped" /\ BrokerDeliverCrawl(w)

\* A failure of the connection that ends the worker threads of every worker,
\* as it would with one connection shared by the pool.
ConsumeRaises_shared_connection(w) ==
  /\ epc[w] = "idle"
  /\ epc' = [v \in Workers |-> "stopped"]
  /\ crawlQ' = Requeued(w)
  /\ eunacked' = [eunacked EXCEPT ![w] = {}]
  /\ ebuf' = [ebuf EXCEPT ![w] = <<>>]
  /\ UNCHANGED <<now, published, ejob, eprofile, outFiles, scoreQ, estats,
                 ehist, spublished, svars>>

\* worker_thread 181-183: mq.connect() returns False: the thread returns
\* before it consumes anything.
FailedConnect(w) ==
  /\ epc[w] = "idle"
  /\ ejob[w] = NoJob /\ ebuf[w] = <<>> /\ eunacked[w] = {}
  /\ epc' = [epc EXCEPT ![w] = "stopped"]
  /\ UNCHANGED <<now, published, crawlQ, eunacked, ebuf, ejob, eprofile,
                 outFiles, scoreQ, estats, ehist, spublished, svars>>

\* worker_thread 261-277: basic_consume or start_consuming raises while the
\* worker waits for a delivery: except Exception prints, finally mq.close().
ConsumeRaises(w) ==
  /\ epc[w] = "idle"
  /\ epc' = [epc EXCEPT ![w] = "stopped"]
  /\ crawlQ' = Requeued(w)
  /\ eunacked' = [eunacked EXCEPT ![w] = {}]
  /\ ebuf' = [ebuf EXCEPT ![w] = <<>>]
  /\ UNCHANGED <<now, published, ejob, eprofile, outFiles, scoreQ, estats,
                 ehist, spublished, svars>>

\* callback 226-259: completed += 1, then basic_ack raises inside the inner
\* try: the inner except counts failed and its nack raises too, finally
\* closes the crawler and decrements processing, the nack of the outer
\* except raises out of the callback, and start_consuming raises into
\* worker_thread 272-277, which closes the connection.
AckRaises(w) ==
  /\ epc[w] = "complete"
  /\ epc' = [epc EXCEPT ![w] = "stopped"]
  /\ estats' = [estats EXCEPT !.completed = @ + 1, !.failed = @ + 1,
                              !.processing = @ - 1]
  /\ ehist' = Count(Count(ehist, ejob[w].id, "completed"), ejob[w].id, "failed")
  /\ crawlQ' = Requeued(w)
  /\ eunacked' = [eunacked EXCEPT ![w] = {}]
  /\ UNCHANGED <<now, published, ebuf, ejob, eprofile, outFiles, scoreQ,
                 spublished, svars>>

\* callback 237-259: failed += 1, then basic_nack raises inside the inner
\* except: finally decrements processing, the nack of the outer except
\* raises out of the callback, and the worker thread ends as above.
NackRaises(w) ==
  /\ epc[w] = "except"
  /\ epc' = [epc EXCEPT ![w] = "stopped"]
  /\ estats' = [estats EXCEPT !.failed = @ + 1, !.processing = @ - 1]
  /\ ehist' = Count(ehist, ejob[w].id, "failed")
  /\ crawlQ' = Requeued(w)
  /\ eunacked' = [eunacked EXCEPT ![w] = {}]
  /\ UNCHANGED <<now, published, ebuf, ejob, eprofile, outFiles, scoreQ,
                 spublished, svars>>

NextFaults ==
  \/ Tick
  \/ \E u \in URLS : PublishUrl(u)
  \/ \E w \in Workers :
       \/ ConsumerDeliver(w)
       \/ CallbackEnter(w)
       \/ ExtractProfile(w)
       \/ SaveProfileCheck(w)
       \/ SaveProfileWrite(w)
       \/ SendToScoring(w)
       \/ Complete(w)
       \/ Except(w)
       \/ Finally(w)
       \/ FailedConnect(w)
       \/ ConsumeRaises(w)
       \/ AckRaises(w)
       \/ NackRaises(w)

\* The extraction pool with workers whose connection may fail.
SpecFaults == Init /\ [][NextFaults]_vars

(* ---------------- a worker stuck inside an extraction ------------------- *)
\* The worker whose crawler.login() or crawler.get_profile(url) never returns
\* (callback 211-215); the workers are alike, so it is the first.
StuckWorker == 1

\* A step of the worker thread of w or of the broker towards it.
WorkerStep(w) ==
  \/ BrokerDeliverCrawl(w)
  \/ CallbackEnter(w)
  \/ ExtractProfile(w)
  \/ SaveProfileCheck(w)
  \/ SaveProfileWrite(w)
  \/ SendToScoring(w)
  \/ Complete(w)
  \/ Except(w)
  \/ Finally(w)

\* The threads of the other workers are scheduled again and again and every
\* call they make returns; nothing is assumed of StuckWorker.
FairOthers == WF_vars(\E w \in Workers \ {StuckWorker} : WorkerStep(w))

\* The extraction pool under fair scheduling of every worker but one.
SpecStuck == Init /\ [][Next]_vars /\ FairOthers

(* ------------------------ main thread: interrupt ------------------------ *)
\* The jobs the workers hold: delivered and not yet acked or nacked (broker
\* pools), or taken from url_queue and not yet done (in-process pool).
Held ==
  {<<"crawl", m.id>> : m \in UNION {eunacked[w] : w \in Workers}}
    \cup {<<"crawl", ejob[w].id>> :
            w \in {v \in Workers : epc[v] \notin {"idle", "dead", "stopped"}}}
    \cup {<<"score", m.id>> : m \in UNION {sunacked[w] : w \in Workers}}

\* except KeyboardInterrupt in main (crawler_with_scoring.py 399-401,
\* scoring_consumer.py 640-642, consumer_multi.py 199-201, main.py 247-249):
\* nothing is signalled to the workers.
KeyboardInterrupt ==
  /\ main = "running"
  /\ main' = "interrupted"
  /\ received' = Held
  /\ UNCHANGED <<now, scoreQ, spublished, published, crawlQ, eunacked, ebuf,
                 epc, ejob, eprofile, outFiles, estats, ehist, sunacked, sbuf,
                 spc, sjob, scoreFiles, sstats, shist, unfinished, loaded,
                 cvars>>

\* main of a broker pool, finally (crawler_with_scoring.py 403-405,
\* scoring_consumer.py 644-646): time.sleep(3) or time.sleep(2), the final
\* stats, and main returns; the workers are daemon threads and end with it,
\* wherever they are.
MainExit ==
  /\ main = "interrupted"
  /\ main' = "exited"
  /\ UNCHANGED <<now, scoreQ, spublished, published, crawlQ, eunacked, ebuf,
                 epc, ejob, eprofile, outFiles, estats, ehist, sunacked, sbuf,
                 spc, sjob, scoreFiles, sstats, shist, unfinished, received, loaded,
                 cvars>>

\* main of crawler/main.py 238-249: the monitoring loop ends when the queue
\* is empty and processing is 0, then url_queue.join(); after an interrupt
\* url_queue.join() alone.  join returns when unfinished_tasks is 0.
JoinReturns ==
  /\ published > 0
  /\ unfinished = 0
  /\ \/ main = "interrupted"
     \/ main = "running" /\ crawlQ = <<>> /\ estats.processing = 0
  /\ main' = "exited"
  /\ UNCHANGED <<now, scoreQ, spublished, published, crawlQ, eunacked, ebuf,
                 epc, ejob, eprofile, outFiles, estats, ehist, sunacked, sbuf,
                 spc, sjob, scoreFiles, sstats, shist, unfinished, received, loaded,
                 cvars>>

NextInProcess ==
  \/ \E u \in URLS : QueuePut(u)
  \/ KeyboardInterrupt
  \/ JoinReturns
  \/ Tick
  \/ \E w \in Workers :
       \/ WorkerGet(w)
       \/ WorkerCreate(w)
       \/ WorkerSaveCheck(w)
       \/ WorkerSaveWrite(w)
       \/ WorkerCompleted(w)
       \/ WorkerExcept(w)
       \/ WorkerFinally(w)
       \/ WorkerStop(w)

\* The in-process pool of crawler/main.py with its main thread.
SpecInProcess == Init /\ [][NextInProcess]_vars

\* One step of worker w of crawler/main.py.
InProcessStep(w) ==
  \/ WorkerGet(w)
  \/ WorkerCreate(w)
  \/ WorkerSaveCheck(w)
  \/ WorkerSaveWrite(w)
  \/ WorkerCompleted(w)
  \/ WorkerExcept(w)
  \/ WorkerFinally(w)
  \/ WorkerStop(w)

\* A run of crawler/main.py that is not interrupted.
NextRun ==
  \/ \E u \in URLS : QueuePut(u)
  \/ JoinReturns
  \/ Tick
  \/ \E w \in Workers : InProcessStep(w)

\* The worker threads (main.py 225-232) and the main thread are scheduled by
\* the interpreter: each of them that can take a step eventually takes one.
FairRun ==
  /\ \A w \in Workers : WF_vars(InProcessStep(w))
  /\ WF_vars(JoinReturns)

SpecRun == Init /\ [][NextRun]_vars /\ FairRun

NextInterrupt ==
  \/ KeyboardInterrupt
  \/ MainExit
  \/ main # "exited" /\ NextPools

\* A broker pool (either one, as in SpecPools) with its main thread.
SpecInterrupt == Init /\ [][NextInterrupt]_vars

\* Scoring one profile against one RequirementSpec, on fresh and on reused
\* scorer instances.
InitScorer ==
  /\ InitPools
  /\ \/ requirements \in RequirementSpecs /\ profile \in Profiles
     \/ /\ requirements = PythonGoRequirements
        /\ profile \in {PythonGolangProfile, PythonsPythonProfile}
  /\ breakdown = EmptyBreakdown
  /\ first = NoCall
  /\ last = NoCall

NextScorer ==
  \/ \E reqs \in RequirementSpecs \cup {PythonGoRequirements} : NewScorer(reqs)
  \/ Score
  \/ \E q \in OtherProfiles : ScoreOther(q)

SpecScorer == InitScorer /\ [][NextScorer]_vars

(* ------------------------------ claims --------------------------------- *)
RECURSIVE Sum(_, _)
Sum(f, S) == IF S = {} THEN 0
             ELSE LET x == CHOOSE x \in S : TRUE IN f[x] + Sum(f, S \ {x})

\* The callback of crawl message i has returned.
EFinished(i) ==
  /\ ehist[i].deliveries > 0
  /\ \A w \in Workers :
       /\ ejob[w].id = i => epc[w] = "idle"
       /\ \A k \in 1..Len(ebuf[w]) : ebuf[w][k].id # i

\* process_message has returned for Score message i and the callback has
\* acked or nacked it.
SFinished(i) ==
  /\ shist[i].deliveries > 0
  /\ \A w \in Workers :
       /\ sjob[w].id = i => spc[w] \in {"idle", "finally"}
       /\ \A k \in 1..Len(sbuf[w]) : sbuf[w][k].id # i

\* C1: whenever a job with a non-empty URL / profile is acked, a persisted
\* record for its natural key exists: a ProfileRecord file of that URL for a
\* Crawl job, a ScoreResult file of that (URL, requirements_id) for a Score job.
C1_AckImpliesRecorded ==
  /\ \A i \in JobIds :
       ehist[i].acks > 0 /\ ehist[i].url # ""
         => \E f \in outFiles : f.profile_url = ehist[i].url
  /\ \A i \in JobIds :
       shist[i].acks > 0
         => \E f \in scoreFiles : /\ f.profile_url = shist[i].url
                                  /\ f.requirements_id = shist[i].req

\* C2: the same URL submitted twice, the first acked as completed before the
\* second is received: once the second is handled there is exactly one
\* ProfileRecord file of the URL and the second was acked and counted skipped,
\* not completed or failed.
C2_SecondSubmissionSkipped ==
  \A i, j \in JobIds :
    (/\ i # j
     /\ ehist[i].url = ehist[j].url
     /\ i \in ehist[j].prior
     /\ EFinished(j))
    => /\ Cardinality({f \in outFiles : f.profile_url = ehist[j].url}) = 1
       /\ ehist[j].acks = 1 /\ ehist[j].nacks = 0
       /\ ehist[j].counted["skipped"] = 1
       /\ ehist[j].counted["completed"] = 0
       /\ ehist[j].counted["failed"] = 0

\* The Score messages published for a (profile_url, requirements_id) pair.
PairJobs(u, r) == {i \in JobIds : shist[i].url = u /\ shist[i].req = r}

C4_ExtractionFailureCountedOnce ==
  \A i \in JobIds :
    ehist[i].raised # "none" /\ EFinished(i)
      => /\ ehist[i].acks = 0 /\ ehist[i].nacks >= 1
         /\ ehist[i].counted["failed"] = 1
         /\ ehist[i].deliveries = 1

\* C5: every consumer holds at most one delivered-but-unacknowledged message,
\* and a message is handed to a worker only when the message it was handling
\* has been acked or nacked.
C5_OneUnackedPerConsumer ==
  \A w \in Workers :
    /\ Cardinality(eunacked[w]) <= 1
    /\ Cardinality(sunacked[w]) <= 1
    /\ ebuf[w] # <<>> => ejob[w] \notin eunacked[w] /\ Len(ebuf[w]) = 1
    /\ sbuf[w] # <<>> => sjob[w] \notin sunacked[w] /\ Len(sbuf[w]) = 1

\* A worker is scoring its one unacknowledged message while another message
\* waits in the queue.
C5_Witness ==
  \E w \in Workers : /\ spc[w] = "score"
                     /\ sunacked[w] = {sjob[w]}
                     /\ scoreQ # <<>>

\* C6: a Crawl job whose URL has a persisted ProfileRecord when it is received
\* is acked without a crawler being created.
C6_NoExtractionWhenRecorded ==
  \A i \in JobIds :
    ehist[i].hadRecord
      => /\ ~ehist[i].crawler
         /\ EFinished(i) => ehist[i].acks = 1 /\ ehist[i].nacks = 0

\* C7: a Score job is published for a URL only when a ProfileRecord file of
\* that URL has been written, and a delivery whose extraction or persist
\* raised publishes no Score job.
C7_ScoreJobOnlyAfterPersist ==
  \A i \in JobIds :
    /\ ehist[i].sent > 0 => \E f \in outFiles : f.profile_url = ehist[i].url
    /\ ehist[i].raised # "none" => ehist[i].sent = 0

\* No crawl message is queued, buffered or being handled.
CrawlQuiescent ==
  /\ crawlQ = <<>>
  /\ \A w \in Workers : epc[w] = "idle" /\ ebuf[w] = <<>>

\* C8: over the whole run exactly one Score job is published for each persisted
\* ProfileRecord (and the requirement id the pool runs with).
C8_ExactlyOneScoreJobPerRecord ==
  CrawlQuiescent
    => \A u \in URLS :
         (\E f \in outFiles : f.complete /\ f.profile_url = u)
           => Sum([i \in JobIds |-> ehist[i].sent],
                  {i \in JobIds : ehist[i].url = u}) = 1

\* C9: the scoring dedup check is keyed on the pair: among the ScoreResult
\* files of a URL u, files of other requirement ids never make
\* check_if_already_scored(u, r) true.
C9_DedupKeyedOnPair ==
  \A u \in SCORE_URLS \ {""}, r \in REQ_IDS :
    LET own == {f \in scoreFiles : f.profile_url = u}
    IN (\A f \in own : f.requirements_id # r)
         => ~check_if_already_scored(u, r, own)

\* C10: a Score job whose ResultSink update failed is acked exactly once and
\* never nacked, counted completed and not failed, and not delivered again;
\* supabase_failed counts exactly the jobs whose update failed, and failed
\* counts only nacked jobs.
C10_SinkFailureStillAcked ==
  /\ \A i \in JobIds :
       shist[i].sink = "failed" /\ SFinished(i)
         => /\ shist[i].acks = 1 /\ shist[i].nacks = 0
            /\ shist[i].counted["completed"] = 1
            /\ shist[i].counted["failed"] = 0
            /\ shist[i].deliveries = 1
  /\ sstats.supabase_failed = Cardinality({i \in JobIds : shist[i].sink = "failed"})
  /\ sstats.failed = Cardinality({i \in JobIds : shist[i].nacks > 0})

\* A Score job wrote its ScoreResult, its ResultSink update failed, and it has
\* been acked.
C10_Witness ==
  \E i \in JobIds : /\ shist[i].wrote = 1 /\ shist[i].sink = "failed"
                    /\ shist[i].acks = 1 /\ SFinished(i)

\* A worker's callback has returned for the message ejob[w].
EReturned(w) == epc[w] = "idle" /\ ejob[w] # NoJob

\* C11: a Crawl message whose url is missing or empty is acked in the step
\* that receives it, with no stats counter changed and no crawler created; it
\* is never nacked and never delivered again.
C11_EmptyUrlAcked ==
  /\ [](\A w \in Workers :
          ejob[w].kind = "object" /\ ejob[w].url = ""
            => /\ epc[w] = "idle"
               /\ ehist[ejob[w].id].acks = 1 /\ ehist[ejob[w].id].nacks = 0
               /\ ehist[ejob[w].id].deliveries = 1
               /\ ~ehist[ejob[w].id].crawler
               /\ ehist[ejob[w].id].counted = NoCount
               /\ ejob[w] \notin eunacked[w])
  /\ [][\A w \in Workers :
          ejob'[w] # ejob[w] /\ ejob'[w].kind = "object" /\ ejob'[w].url = ""
            => estats' = estats]_vars

\* A worker has returned from the callback for a message with an empty url.
C11_Witness ==
  \E w \in Workers : /\ EReturned(w) /\ ejob[w].kind = "object" /\ ejob[w].url = ""
                     /\ ehist[ejob[w].id].acks = 1

\* C12: a malformed message (not JSON, not an object, or a Score message
\* without profile_data) is acked and never nacked by the worker that handled
\* it, in both pools.
C12_MalformedAcked ==
  \A w \in Workers :
    /\ EReturned(w) /\ ejob[w].kind \in {"garbage", "nonobject"}
         => ehist[ejob[w].id].acks = 1 /\ ehist[ejob[w].id].nacks = 0
    /\ spc[w] \in {"idle", "finally"}
         /\ sjob[w].kind \in {"garbage", "nonobject", "noprofile"}
         => shist[sjob[w].id].acks = 1 /\ shist[sjob[w].id].nacks = 0

\* C13: no exception raised while a Crawl job is handled leaves the job
\* handler: no worker thread is ever ended by a failing job.
C13_WorkerSurvivesFailure ==
  \A w \in Workers : epc[w] # "dead"

\* A worker is inside the handler of a job (its callback has not returned).
EHandling(w) == epc[w] \notin {"idle", "dead", "stopped"}

\* C14: the process does not exit while a worker is between receiving a job
\* and acking or nacking it.
C14_NoExitWithJobInFlight ==
  main = "exited"
    => \A w \in Workers :
         /\ ~(EHandling(w) /\ ejob[w] \in eunacked[w])
         /\ ~(spc[w] # "idle" /\ sjob[w] \in sunacked[w])

\* C15: after the interrupt no worker starts on a job it did not hold when
\* main was interrupted.
C15_NoNewJobAfterInterrupt ==
  [][\A w \in Workers :
       main = "interrupted"
         => /\ ejob'[w] # ejob[w] => <<"crawl", ejob'[w].id>> \in received
            /\ sjob'[w] # sjob[w] => <<"score", sjob'[w].id>> \in received]_vars

\* C16: two workers inside the handlers of two Crawl jobs for the same URL at
\* the same time: unless both wrote a file, at most one of the jobs is counted
\* completed; and when neither job's save raised, every file of the URL is a
\* complete ProfileRecord.
C16_ConcurrentSameUrl ==
  \A w, v \in Workers :
    (/\ w # v
     /\ EHandling(w) /\ EHandling(v)
     /\ ejob[w].url = ejob[v].url)
    => /\ ~(ehist[ejob[w].id].wrote /\ ehist[ejob[v].id].wrote)
            => ~(/\ ehist[ejob[w].id].counted["completed"] = 1
                 /\ ehist[ejob[v].id].counted["completed"] = 1)
       /\ (/\ ehist[ejob[w].id].raised = "none"
           /\ ehist[ejob[v].id].raised = "none")
            => \A f \in outFiles : f.profile_url = ejob[w].url => f.complete

\* C17 amended: two calls of score for the same profile and the same
\* RequirementSpec, its mappings in the same iteration order, return the same
\* ScoreResult (or both raise), whether the scorer instance is fresh or was
\* used for other calls before.
C17_SameInputsSameResult ==
  (first # NoCall /\ last # NoCall /\ first.requirements = last.requirements)
    => first.result = last.result

\* The profile was scored twice with the same RequirementSpec, the second
\* time on an instance that had been used before, and a result came back.
C17_Witness ==
  /\ first # NoCall
  /\ last # NoCall
  /\ first.requirements = last.requirements
  /\ last.reused
  /\ ~last.result.raised

\* C17: two calls of score for the same profile and the same RequirementSpec
\* return the same ScoreResult whatever the iteration order of the mappings of
\* the RequirementSpec.
C17_DeterministicAnyOrder ==
  (first # NoCall /\ last # NoCall) => first.result = last.result

\* Every required and every preferred skill of reqs is matched by prof with
\* similarity 100, and neither mapping is empty.
FullyMatched(prof, reqs) ==
  /\ reqs.required_skills # <<>>
  /\ reqs.preferred_skills # <<>>
  /\ \A i \in 1..Len(reqs.required_skills) :
        best_ratio(reqs.required_skills[i].skill,
                   normalize_skills(prof.skills)) = 100
  /\ \A i \in 1..Len(reqs.preferred_skills) :
        best_ratio(reqs.preferred_skills[i].skill,
                   normalize_skills(prof.skills)) = 100

\* C18: when a profile that matches every required and preferred skill with
\* similarity 100 has been scored, the points awarded to the skills sum to
\* exactly the required pool plus the preferred pool, whatever the weights.
C18_FullMatchFillsPools ==
  (last # NoCall /\ FullyMatched(profile, last.requirements))
    => /\ ~last.result.raised
       /\ LET sk == score_skills(profile.skills, last.requirements)
          IN FAdd(FSum(sk.req_points), FSum(sk.pref_points))
               = Whole(REQUIRED_POOL + PREFERRED_POOL)

\* The profile skills with one more skill whose similarity to skill is r: the
\* best similarity of skill is raised to r when r is above it, and that of
\* every other skill stays what it is.
Raise(profile_skills, skill, r) ==
  Append(profile_skills, [like |-> skill, ratio |-> r])

\* C19: for each required and each preferred skill of the RequirementSpec a
\* profile was scored against, raising the best similarity of that skill and
\* nothing else never decreases the points awarded for it: the skill still
\* gets points, at least as many as before, and 0 below the threshold.
C19_PointsMonotone ==
  last # NoCall =>
    LET reqs == last.requirements
        before == score_skills(profile.skills, reqs)
    IN ~before.raises =>
         \A r \in Ratios :
           /\ \A i \in 1..Len(reqs.required_skills) :
                LET after == score_skills(
                               Raise(profile.skills,
                                     reqs.required_skills[i].skill, r), reqs)
                IN /\ ~after.raises
                   /\ FLeq(before.req_points[i], after.req_points[i])
                   /\ r < MATCH_THRESHOLD
                        => after.req_points[i] = before.req_points[i]
           /\ \A i \in 1..Len(reqs.preferred_skills) :
                LET after == score_skills(
                               Raise(profile.skills,
                                     reqs.preferred_skills[i].skill, r), reqs)
                IN /\ ~after.raises
                   /\ FLeq(before.pref_points[i], after.pref_points[i])
                   /\ r < MATCH_THRESHOLD
                        => after.pref_points[i] = before.pref_points[i]

\* C20: when the RequirementSpec a profile was scored against has an empty
\* or absent education-level list, the education score is the full education
\* pool, in OptimizedScorer and in ProfileScorer, whatever the education of
\* the profile, and the returned breakdown records it.
C20_NoRequirementFullEducation ==
  (last # NoCall /\ (~last.requirements.education_level.present
                     \/ last.requirements.education_level.value = <<>>))
    => /\ score_education(profile.education, last.requirements).score
            = Whole(EDUCATION_POOL)
       /\ ProfileScorer_score_education(profile.education,
                                        last.requirements).score
            = Whole(EDUCATION_POOL)
       /\ ~last.result.raised
            => last.result.breakdown.education
                 = [score |-> 100 * EDUCATION_POOL]

\* A profile without education was scored against a RequirementSpec whose
\* education-level list is present and empty, and a result came back.
C20_Witness ==
  /\ last # NoCall
  /\ last.requirements.education_level.present
  /\ last.requirements.education_level.value = <<>>
  /\ profile.education = <<>>
  /\ ~last.result.raised
  /\ last.result.breakdown.education = [score |-> 100 * EDUCATION_POOL]

\* C21: scoring the profile with the skills [python, golang] against the
\* required skills {Python: 3, Go: 1} matches Python and awards it 3/4 of the
\* required pool, leaves Go unmatched, listed as missing with 0 points, and
\* gives a required-pool score of 75% of the pool.
C21_GolangDoesNotMatchGo ==
  (/\ last # NoCall
   /\ profile = PythonGolangProfile
   /\ last.requirements = PythonGoRequirements)
    => /\ ~last.result.raised
       /\ last.result.breakdown.skills.required_matched = 1
       /\ last.result.breakdown.skills.required_missing = <<"Go">>
       /\ last.result.breakdown.skills.score
            = round2(Frac(3 * REQUIRED_POOL, 4))


\* C22: the experience score of a scored profile is the full experience pool
\* when the summed months (12 per 'N yr' token plus the 'N mo' token of every
\* entry) reach 12 * min_experience_years, and 20 * total_years /
\* min_experience_years otherwise, in OptimizedScorer and in ProfileScorer,
\* for every experience list, the empty one included.
C22_ExperienceFromDurations ==
  last # NoCall
    => LET months == total_months(profile.experiences)
           min_years == last.requirements.min_experience_years
           claimed == IF months >= 12 * min_years
                      THEN Whole(EXPERIENCE_POOL)
                      ELSE Frac(EXPERIENCE_POOL * months, 12 * min_years)
       IN /\ score_experience(profile.experiences, last.requirements).score
               = claimed
          /\ ProfileScorer_score_experience(profile.experiences,
                                            last.requirements) = claimed

\* C23: in every reachable state of the extraction pool and for every URL, at
\* most one persisted ProfileRecord file carries the hash of that URL.
C23_OneRecordPerHash ==
  \A u \in URLS :
     Cardinality({f \in outFiles : f.hash = get_profile_hash(u)}) <= 1

\* C24: a job that a worker has nacked had no ProfileRecord file and no
\* ScoreResult file written while its delivery was handled.
C24_NackedWroteNothing ==
  /\ \A i \in JobIds : ehist[i].nacks > 0 => ~ehist[i].wrote
  /\ \A i \in JobIds : shist[i].nacks > 0 => shist[i].wrote = 0

\* C25: a Score job whose scoring fails (no requirement file, or the scorer
\* raises on weights that sum to zero) is never acked nor counted completed,
\* no ScoreResult file is written for it and the result sink is not called;
\* once its delivery is handled it was nacked once, without requeue, and
\* counted failed exactly once.
C25_ScoringFailureNacked ==
  \A i \in JobIds :
     (/\ shist[i].req \in {REQ_NOFILE, REQ_ZERO}
      /\ shist[i].counted["skipped"] = 0)
       => /\ shist[i].acks = 0
          /\ shist[i].counted["completed"] = 0
          /\ shist[i].computed = 0
          /\ shist[i].wrote = 0
          /\ shist[i].sink = "none"
          /\ shist[i].nacks = shist[i].counted["failed"]
          /\ shist[i].nacks <= 1
          /\ shist[i].deliveries <= 1
          /\ SFinished(i) => shist[i].nacks = 1

\* One job without a requirement file and one whose weights sum to zero were
\* both handled to the end by the scoring workers.
C25_Witness ==
  \E i, j \in JobIds :
     /\ shist[i].req = REQ_NOFILE /\ shist[j].req = REQ_ZERO
     /\ shist[i].url # "" /\ shist[j].url # ""
     /\ SFinished(i) /\ SFinished(j)
     /\ shist[i].nacks = 1 /\ shist[j].nacks = 1
     /\ sstats.failed = 2 /\ sstats.completed = 0
     /\ scoreFiles = {}

\* C26: a Score job received while a ScoreResult file of its (profile_url,
\* requirements_id) pair exists is acked and counted skipped and nothing else:
\* no score is computed, no file written, the sink is not called, and the job
\* is counted neither completed nor failed.
C26_DuplicateOnlySkipped ==
  \A i \in JobIds :
     (shist[i].hadRecord /\ shist[i].url # "" /\ SFinished(i))
       => /\ shist[i].acks = 1 /\ shist[i].nacks = 0
          /\ shist[i].counted["skipped"] = 1
          /\ shist[i].computed = 0
          /\ shist[i].wrote = 0
          /\ shist[i].sink = "none"
          /\ shist[i].counted["completed"] = 0
          /\ shist[i].counted["failed"] = 0

\* C27: a job received when the record of its key is already persisted (a
\* ProfileRecord file of the URL, a ScoreResult file of the pair) is neither
\* extracted nor scored again and writes no second record, whatever happened
\* after the record was persisted.
C27_NoReprocessingAfterPersist ==
  /\ \A i \in JobIds :
       ehist[i].hadRecord => ~ehist[i].crawler /\ ~ehist[i].wrote
  /\ \A i \in JobIds :
       shist[i].hadRecord /\ shist[i].url # ""
         => shist[i].computed = 0 /\ shist[i].wrote = 0

\* No in-process worker holds or is about to take a URL, and none is between
\* the read and the write of a counter.
StatsQuiescent ==
  /\ published > 0
  /\ crawlQ = <<>>
  /\ \A w \in Workers : /\ epc[w] \in {"idle", "stopped", "dead"}
                        /\ loaded[w] = NoLoad

\* C28: the counters of crawler/main.py lose no update: in every quiescent
\* state completed, failed and skipped equal the number of jobs that were
\* counted so, and processing the number of jobs begun and never ended.
C28_CountersEqualEvents ==
  StatsQuiescent
    => /\ \A c \in {"completed", "failed", "skipped"} :
            estats[c] = Sum([i \in JobIds |-> ehist[i].counted[c]], JobIds)
       /\ estats.processing
            = Cardinality({w \in Workers : epc[w] = "dead"})

\* C29: a step in which the worker thread of one worker ends on a broker
\* failure (failed connect, error in consuming, acking or nacking) leaves
\* every other worker where it was, with its job, its deliveries and its
\* connection, and leaves the main thread running.
C29_FailureEndsOnlyThatWorker ==
  [][\A w \in Workers :
       (epc[w] # "stopped" /\ epc'[w] = "stopped")
         => /\ main' = main /\ main = "running"
            /\ \A v \in Workers \ {w} :
                 /\ epc'[v] = epc[v] /\ ejob'[v] = ejob[v]
                 /\ ebuf'[v] = ebuf[v] /\ eunacked'[v] = eunacked[v]
                 /\ eprofile'[v] = eprofile[v]]_vars

\* One worker ended on a broker failure while it held a job; the broker
\* delivered the job again and another worker completed and acked it, and
\* the main thread is running.
C29_Witness ==
  \E w, v \in Workers :
     /\ w # v /\ epc[w] = "stopped" /\ epc[v] = "idle"
     /\ main = "running"
     /\ ejob[w] = ejob[v] /\ ejob[v] # NoJob
     /\ ehist[ejob[v].id].deliveries = 2
     /\ ehist[ejob[v].id].acks = 1

\* C30: when one worker stays forever inside the extraction of a job, it
\* holds that one job and nothing else, and under fair scheduling of the
\* other workers every published job is eventually acked or nacked, except
\* the one the stuck worker holds.
C30_OthersFinishWhileOneIsStuck ==
  <>[](epc[StuckWorker] = "create")
    => /\ [](epc[StuckWorker] = "create"
               => /\ eunacked[StuckWorker] = {ejob[StuckWorker]}
                  /\ ebuf[StuckWorker] = <<>>)
       /\ \A i \in JobIds :
            (published >= i)
              ~> \/ ehist[i].acks + ehist[i].nacks > 0
                 \/ ejob[StuckWorker].id = i /\ epc[StuckWorker] = "create"

\* The first worker is inside the extraction of the first job while another
\* worker has received, completed and acked the second.
C30_Witness ==
  /\ epc[StuckWorker] = "create" /\ ejob[StuckWorker].id = 1
  /\ \E v \in Workers \ {StuckWorker} :
       /\ epc[v] = "idle" /\ ejob[v].id = 2
       /\ ehist[2].acks = 1 /\ ehist[2].counted["completed"] = 1

\* C31: every delivery gets exactly one terminal acknowledgment: never more
\* acks and nacks than deliveries, and once the callback has returned exactly
\* one ack or one nack per delivery, in the extraction and the scoring pool.
C31_OneTerminalAckPerDelivery ==
  /\ \A i \in JobIds :
       /\ ehist[i].acks + ehist[i].nacks <= ehist[i].deliveries
       /\ EFinished(i) => ehist[i].acks + ehist[i].nacks = ehist[i].deliveries
  /\ \A i \in JobIds :
       /\ shist[i].acks + shist[i].nacks <= shist[i].deliveries
       /\ SFinished(i) => shist[i].acks + shist[i].nacks = shist[i].deliveries

\* C32: no step deletes or rewrites a persisted file: every ProfileRecord file
\* and every ScoreResult file present before a step is present, with the same
\* name and the same content, after it.
C32_PersistedFilesOnlyGrow ==
  [][/\ \A f \in outFiles : f \in outFiles'
     /\ \A f \in scoreFiles : f \in scoreFiles']_vars

C34_EducationByLevels ==
  (last # NoCall /\ last.requirements.education_level.present
                 /\ last.requirements.education_level.value # <<>>)
    => LET degrees == [i \in 1..Len(profile.education) |->
                         profile.education[i].degree]
           required == last.requirements.education_level.value
           expected(table) ==
             IF highest_level(table, degrees) >= highest_level(table, required)
             THEN Whole(EDUCATION_POOL)
             ELSE Frac(EDUCATION_POOL * highest_level(table, degrees),
                       highest_level(table, required))
       IN /\ score_education(profile.education, last.requirements).score
               = expected(levels)
          /\ ProfileScorer_score_education(profile.education,
                                           last.requirements).score
               = expected(level_hierarchy)

\* C35: the points awarded for each required and preferred skill are the same
\* for every order of the profile's skill list, in OptimizedScorer and, for
\* skills compared as strings, in ProfileScorer and in Scorer.
C35_PointsIgnoreSkillOrder ==
  last # NoCall =>
    \A q \in reorderings(profile.skills) :
      /\ score_skills(q, requirements) = score_skills(profile.skills, requirements)
      /\ (\A i \in 1..Len(q) : "text" \in DOMAIN q[i])
           => /\ ProfileScorer_score_skills(q, requirements)
                   = ProfileScorer_score_skills(profile.skills, requirements)
              /\ Scorer_score_skills(q, requirements)
                   = Scorer_score_skills(profile.skills, requirements)

\* C36: for a RequirementSpec with positive skill weights, the ScoreResult of
\* OptimizedScorer.score has total_score equal to the sum of the skills,
\* experience and education scores of its breakdown, with 0 <= skills <= 70,
\* 0 <= experience <= 20, 0 <= education <= 10, 0 <= total_score <= 100, and
\* percentage equal to total_score (all in hundredths).
C36_TotalIsSumOfPoolScores ==
  (/\ last # NoCall
   /\ \A i \in 1..Len(last.requirements.required_skills) :
         last.requirements.required_skills[i].weight > 0
   /\ \A i \in 1..Len(last.requirements.preferred_skills) :
         last.requirements.preferred_skills[i].weight > 0)
    => /\ ~last.result.raised
       /\ LET b == last.result.breakdown
          IN /\ last.result.total_score
                  = b.skills.score + b.experience.score + b.education.score
             /\ b.skills.score \in 0..(100 * (REQUIRED_POOL + PREFERRED_POOL))
             /\ b.experience.score \in 0..(100 * EXPERIENCE_POOL)
             /\ b.education.score \in 0..(100 * EDUCATION_POOL)
             /\ last.result.total_score \in 0..10000
             /\ last.result.percentage = last.result.total_score

\* C37: in each broker pool stats['processing'] is between 0 and the number
\* of workers, equals the number of workers whose callback is at work on a
\* job, and is 0 whenever every worker waits for a message.
C37_ProcessingCountsBusyWorkers ==
  /\ estats.processing \in 0..NumWorkers
  /\ estats.processing = Cardinality({w \in Workers : epc[w] # "idle"})
  /\ (\A w \in Workers : epc[w] = "idle") => estats.processing = 0
  /\ sstats.processing \in 0..NumWorkers
  /\ sstats.processing = Cardinality({w \in Workers : spc[w] # "idle"})
  /\ (\A w \in Workers : spc[w] = "idle") => sstats.processing = 0

\* C38: every job whose callback has returned was counted in exactly one of
\* completed, failed and skipped, so whenever every worker of a pool waits,
\* completed + failed + skipped of the pool is the number of its jobs that
\* were acked or nacked.
C38_OneCounterPerFinishedJob ==
  /\ \A i \in JobIds :
       EFinished(i) => ehist[i].counted["completed"] + ehist[i].counted["failed"]
                         + ehist[i].counted["skipped"] = 1
  /\ \A i \in JobIds :
       SFinished(i) => shist[i].counted["completed"] + shist[i].counted["failed"]
                         + shist[i].counted["skipped"] = 1
  /\ (\A w \in Workers : epc[w] = "idle")
       => estats.completed + estats.failed + estats.skipped
            = Cardinality({i \in JobIds : ehist[i].acks + ehist[i].nacks > 0})
  /\ (\A w \in Workers : spc[w] = "idle")
       => sstats.completed + sstats.failed + sstats.skipped
            = Cardinality({i \in JobIds : shist[i].acks + shist[i].nacks > 0})

\* C39: a dedup hit implies a persisted record of exactly the queried URL:
\* whenever check_if_already_crawled(u) or check_if_already_scored(u, r) is
\* true, some persisted file holds the profile_url u, also when another URL
\* has the same 8-hex hash.
C39_HitOnlyForOwnRecord ==
  /\ \A u \in URLS :
       check_if_already_crawled(u, outFiles)
         => \E f \in outFiles : f.profile_url = u
  /\ \A u \in URLS, r \in REQ_IDS :
       check_if_already_scored(u, r, scoreFiles)
         => \E f \in scoreFiles : f.profile_url = u

\* C40: in the in-process pool, under fair scheduling, once URLs are queued
\* main terminates: url_queue.join() returns with every queued URL taken
\* exactly once and none unfinished, processing back at 0 and
\* completed + failed + skipped equal to the number of URLs.
C40_InProcessRunTerminates ==
  (published > 0)
    ~> (/\ main = "exited"
        /\ unfinished = 0
        /\ crawlQ = <<>>
        /\ \A i \in 1..published : ehist[i].deliveries = 1
        /\ estats.processing = 0
        /\ estats.completed + estats.failed + estats.skipped = published)
====
